---- MODULE Spec2Model ----
(***************************************************************************)
(* Model of the SW102 screen layer (screen.c / screen.h): Fields,          *)
(* FieldLayouts, the differential renderer, the scrollable navigation      *)
(* stack, the editable engine and the layered button dispatch.             *)
(*                                                                         *)
(* Conventions                                                             *)
(*  - A C string is a sequence of one-character strings.                   *)
(*  - A 32 bit quantity (int, int32_t, uint32_t) is carried as the signed  *)
(*    integer with the same bit pattern; an unsigned comparison is the     *)
(*    operator ULess.  Storage cells of 1 and 2 bytes hold 0..255 and      *)
(*    0..65535.                                                            *)
(*  - assert() stops the firmware: the failing assertion is recorded in    *)
(*    fault and no operation runs afterwards.                              *)
(*  - Drawing primitives (UG_*, lcd_refresh) are external; the model keeps *)
(*    a log of the dispatches and flushes of the last operation.           *)
(***************************************************************************)
EXTENDS Integers, Sequences, FiniteSets, TLC

NULL == "NULL"

\* ------------------------------------------------------------ constants
MAX_FIELD_LEN == 16
MAX_SCROLLABLE_DEPTH == 3
MAX_SCROLLABLE_ROWS == 4
BlinkPeriod == 10
rowHeight == 32
SCREEN_WIDTH == 64
SCREEN_HEIGHT == 128
screenWidth == SCREEN_WIDTH
screenHeight == SCREEN_HEIGHT
char_h_space == 1

FontMetrics(font) ==
  CASE font = "FONT_5X12" -> [char_width |-> 5, char_height |-> 12]
    [] OTHER -> [char_width |-> 0, char_height |-> 0]

heading_font == "FONT_5X12"
scrollable_font == "FONT_5X12"

\* button click events (bit flags of buttons_events_t)
ClickFlags == {"UP_CLICK", "DOWN_CLICK", "M_CLICK", "ONOFF_CLICK"}

\* ------------------------------------------------------------ strings
Chars(n, c) == [k \in 1..n |-> c]

Min(a, b) == IF a < b THEN a ELSE b

\* a formatter that ignores the size of the buffer, as vsprintf does
vsnprintf_unbounded(size, str) == str

\* vsnprintf(buf, sizeof(buf), "%s", str): at most size-1 characters are kept
vsnprintf(size, str) == SubSeq(str, 1, Min(Len(str), size - 1))

\* ------------------------------------------------------------ state
VARIABLES
  field,                   \* every struct Field: variant, dirty, blink, is_selected, msg, first, selected
  cell,                    \* the storage cells editables point at (editable.target)
  lay,                     \* the FieldLayout arrays: each screen's fields[] and the static rows[]
  scrollableStack,         \* Field *scrollableStack[MAX_SCROLLABLE_DEPTH], indexed 0..
  scrollableStackPtr,
  curActiveEditable,
  forceScrollableRelayout,
  blinkChanged, blinkOn, blinkCounter,
  oldForceLabels, forceLabels,
  curScreen, screenDirty,
  fault,                   \* "none", or the assertion that stopped the firmware
  linked,                  \* build: the screens the application shows
  linkAdjacent,            \* build: do the entries[] arrays follow each other in memory?
  probeCfg,                \* build: the metadata of the editable "probe"
  op,                      \* the last operation and its inputs
  ret,                     \* what the last operation returned and which handlers it consulted
  log                      \* renderer dispatches, dirty clears and flushes of the last operation

\* ------------------------------------------------------------ the static UI
(* The statically authored fields, menus and screens.  Six screens:
     mainScreen    text, fill and an unlabelled editable, no menu
     listScreen    a menu of six plain rows (longer than the three data rows)
     deepScreen    menus nested one level deeper than the navigation stack
                   allows, and a menu that holds only its End sentinel
     setupScreen   a menu of editables: a number, an enum, a read-only number
     mixScreen     a menu with one row of every kind: an editable, a read-only
                   editable, a submenu that holds only its End sentinel, a
                   text, a fill and a mesh
     shareScreen   a menu with one editable row, and below the menu a second
                   layout of the same editable Field
   A build links some of them (variable linked). *)
MenuFields == {"listMenu", "topMenu", "wheelMenu", "level2Menu", "level3Menu",
               "emptyMenu", "setupMenu", "voidMenu", "mixMenu", "shareMenu"}
EditFields == {"assist", "units", "odo", "trip", "serial", "probe"}
EndFields  == {"listEnd", "topEnd", "wheelEnd", "level2End", "level3End", "emptyEnd",
               "setupEnd", "voidEnd", "mixEnd", "shareEnd"}
FillFields == {"bar", "item0", "item1", "item2", "item3", "item5", "gapRow"}
MeshFields == {"item4", "gridRow"}
TextFields == {"socField", "heading", "label", "noteRow"}
BlankFields == {"blankRows0", "blankRows1", "blankRows2", "blankRows3"}
\* "beyond" stands for the memory that follows the last entries[] array
Fields == MenuFields \cup EditFields \cup EndFields \cup FillFields \cup MeshFields
          \cup TextFields \cup BlankFields \cup {"beyond"}

\* struct Field, variant at construction (FIELD_* macros; statics are zeroed,
\* and variant 0 is FieldDrawText)
InitVariant(f) ==
  CASE f \in MenuFields -> "FieldScrollable"
    [] f \in EditFields -> "FieldEditable"
    [] f \in EndFields  -> "FieldEnd"
    [] f \in FillFields -> "FieldFill"
    [] f \in MeshFields -> "FieldMesh"
    [] OTHER -> "FieldDrawText"

\* scrollable.entries: the array each menu points at, End sentinel included
Entries(f) ==
  CASE f = "listMenu"   -> <<"item0", "item1", "item2", "item3", "item4", "item5", "listEnd">>
    [] f = "topMenu"    -> <<"wheelMenu", "emptyMenu", "topEnd">>
    [] f = "wheelMenu"  -> <<"level2Menu", "wheelEnd">>
    [] f = "level2Menu" -> <<"level3Menu", "level2End">>
    [] f = "level3Menu" -> <<"level3End">>
    [] f = "emptyMenu"  -> <<"emptyEnd">>
    [] f = "setupMenu"  -> <<"assist", "units", "odo", "setupEnd">>
    [] f = "voidMenu"   -> <<"voidEnd">>
    [] f = "mixMenu"    -> <<"trip", "serial", "voidMenu", "noteRow", "gapRow", "gridRow",
                             "mixEnd">>
    [] f = "shareMenu"  -> <<"assist", "shareEnd">>
    [] OTHER -> <<>>

\* scrollable.label
Label(f) ==
  CASE f = "listMenu"   -> <<"L", "i", "s", "t">>
    [] f = "topMenu"    -> <<"T", "o", "p">>
    [] f = "wheelMenu"  -> <<"W", "h", "l">>
    [] f = "level2Menu" -> <<"L", "2">>
    [] f = "level3Menu" -> <<"L", "3">>
    [] f = "emptyMenu"  -> <<"E">>
    [] f = "setupMenu"  -> <<"S", "e", "t">>
    [] f = "voidMenu"   -> <<"V">>
    [] f = "mixMenu"    -> <<"M", "i", "x">>
    [] f = "shareMenu"  -> <<"S", "h">>
    [] OTHER -> <<>>

\* The arrays in declaration order (a menu's array is declared before the
\* array that refers to it): what follows an array in memory when the
\* linker keeps that order.
DeclOrder == <<"level3Menu", "level2Menu", "wheelMenu", "emptyMenu", "topMenu",
               "listMenu", "setupMenu", "voidMenu", "mixMenu", "shareMenu">>

RECURSIVE Flatten(_)
Flatten(order) ==
  IF order = <<>> THEN <<>> ELSE Entries(Head(order)) \o Flatten(Tail(order))

MenuMem == Flatten(DeclOrder)

RECURSIVE BaseIn(_, _)
BaseIn(order, f) ==
  IF Head(order) = f THEN 0 ELSE Len(Entries(Head(order))) + BaseIn(Tail(order), f)

\* editable metadata (FIELD_EDITABLE_UINT / FIELD_EDITABLE_ENUM)
Editable(f) ==
  CASE f = "assist" -> [typ |-> "EditUInt", target |-> "ui8_assist", size |-> 1,
                        min_value |-> 0, max_value |-> 2, inc_step |-> 0,
                        read_only |-> FALSE, options |-> <<NULL>>]
    [] f = "units"  -> [typ |-> "EditEnum", target |-> "ui8_units", size |-> 1,
                        min_value |-> 0, max_value |-> 0, inc_step |-> 0,
                        read_only |-> FALSE, options |-> <<"Off", "On", NULL>>]
    [] f = "odo"    -> [typ |-> "EditUInt", target |-> "ui16_odo", size |-> 2,
                        min_value |-> 0, max_value |-> 65535, inc_step |-> 1,
                        read_only |-> TRUE, options |-> <<NULL>>]
    [] f = "trip"   -> [typ |-> "EditUInt", target |-> "ui8_trip", size |-> 1,
                        min_value |-> 0, max_value |-> 1, inc_step |-> 0,
                        read_only |-> FALSE, options |-> <<NULL>>]
    [] f = "serial" -> [typ |-> "EditUInt", target |-> "ui32_serial", size |-> 4,
                        min_value |-> 0, max_value |-> 99999, inc_step |-> 1,
                        read_only |-> TRUE, options |-> <<NULL>>]
    [] OTHER        -> probeCfg

Cells == {"ui8_assist", "ui8_units", "ui16_odo", "ui8_trip", "ui32_serial", "probeCell"}

InitCell(c) == IF c = "ui16_odo" THEN 40000 ELSE IF c = "ui32_serial" THEN 1234 ELSE 0

\* FieldLayout
Layout(x, y, w, h, color, font, modifier, f) ==
  [x |-> x, y |-> y, width |-> w, height |-> h, color |-> color, border |-> {},
   font |-> font, modifier |-> modifier, old_editable |-> 0, field |-> f]

ZeroLayout == Layout(0, 0, 0, 0, "ColorNormal", NULL, "ModNone", NULL)

\* struct Screen: onPress, onExit and the layouts up to the sentinel
Screens == {"mainScreen", "listScreen", "deepScreen", "setupScreen", "mixScreen",
            "shareScreen"}

MenuScreen(root, onPress, onExit) ==
  [onPress |-> onPress, onExit |-> onExit,
   fields |-> << Layout(0, 0, 0, 0, "ColorNormal", NULL, "ModNone", root), ZeroLayout >>]

ScreenDef(s) ==
  CASE s = "mainScreen" ->
         [onPress |-> TRUE, onExit |-> TRUE,
          fields |-> << Layout(0, 0, 0, -1, "ColorNormal", "FONT_5X12", "ModNone", "socField"),
                        Layout(0, -1, 0, 2, "ColorNormal", NULL, "ModNone", "bar"),
                        Layout(0, -1, -4, -1, "ColorInvert", "FONT_5X12", "ModNone", "socField"),
                        Layout(0, -2, 0, 0, "ColorNormal", NULL, "ModNoLabel", "assist"),
                        ZeroLayout >>]
    [] s = "listScreen"  -> MenuScreen("listMenu", FALSE, FALSE)
    [] s = "deepScreen"  -> MenuScreen("topMenu", TRUE, FALSE)
    [] s = "mixScreen"   -> MenuScreen("mixMenu", TRUE, FALSE)
    [] s = "shareScreen" ->
         [onPress |-> FALSE, onExit |-> FALSE,
          fields |-> << Layout(0, 0, 0, 0, "ColorNormal", NULL, "ModNone", "shareMenu"),
                        Layout(0, 100, 0, 20, "ColorNormal", NULL, "ModNoLabel", "assist"),
                        ZeroLayout >>]
    [] OTHER             -> MenuScreen("setupMenu", TRUE, TRUE)

LayoutArrays == Screens \cup {"rows"}

\* ------------------------------------------------------------ state as a value
prog == <<field, cell, lay, scrollableStack, scrollableStackPtr, curActiveEditable,
          forceScrollableRelayout, blinkChanged, blinkOn, blinkCounter,
          oldForceLabels, forceLabels, curScreen, screenDirty, fault, linked, linkAdjacent, probeCfg>>
vars == <<prog, op, ret, log>>

\* The program state as one value, threaded through the operators below.
\* btn is the sample of buttons_get_{m,up,down}_state() of the running pass,
\* L the locals of the running renderLayouts, rv the value last returned.
Cur == [field |-> field, cell |-> cell, lay |-> lay,
        scrollableStack |-> scrollableStack, scrollableStackPtr |-> scrollableStackPtr,
        curActiveEditable |-> curActiveEditable,
        forceScrollableRelayout |-> forceScrollableRelayout,
        blinkChanged |-> blinkChanged, blinkOn |-> blinkOn, blinkCounter |-> blinkCounter,
        oldForceLabels |-> oldForceLabels, forceLabels |-> forceLabels,
        curScreen |-> curScreen, screenDirty |-> screenDirty, fault |-> fault,
        linkAdjacent |-> linkAdjacent,
        btn |-> [m |-> FALSE, up |-> FALSE, down |-> FALSE],
        L |-> [didDraw |-> FALSE, maxy |-> 0, didChangeForceLabels |-> FALSE],
        rv |-> FALSE, called |-> <<>>, log |-> <<>>]

Install(S) ==
  /\ field' = S.field
  /\ cell' = S.cell
  /\ lay' = S.lay
  /\ scrollableStack' = S.scrollableStack
  /\ scrollableStackPtr' = S.scrollableStackPtr
  /\ curActiveEditable' = S.curActiveEditable
  /\ forceScrollableRelayout' = S.forceScrollableRelayout
  /\ blinkChanged' = S.blinkChanged
  /\ blinkOn' = S.blinkOn
  /\ blinkCounter' = S.blinkCounter
  /\ oldForceLabels' = S.oldForceLabels
  /\ forceLabels' = S.forceLabels
  /\ curScreen' = S.curScreen
  /\ screenDirty' = S.screenDirty
  /\ fault' = S.fault
  /\ linkAdjacent' = S.linkAdjacent
  /\ linked' = linked
  /\ probeCfg' = probeCfg
  /\ log' = S.log

\* between two calls nothing is observed of the last one
Idle == [name |-> "idle"]
NoRet == [handled |-> FALSE, called |-> <<>>]

InitField(f) ==
  [variant |-> InitVariant(f), dirty |-> FALSE, blink |-> FALSE, is_selected |-> FALSE,
   msg |-> <<>>, first |-> 0, selected |-> 0]

\* the metadata of "probe" in a build that shows it on no screen
NoProbe == [typ |-> "EditUInt", target |-> "probeCell", size |-> 1,
            min_value |-> 0, max_value |-> 0, inc_step |-> 0,
            read_only |-> TRUE, options |-> <<NULL>>]

\* the state after construction of a build that links screens
InitOf(screens, adjacent) ==
  /\ field = [f \in Fields |-> InitField(f)]
  /\ cell = [c \in Cells |-> InitCell(c)]
  /\ lay = [a \in LayoutArrays |->
              IF a = "rows" THEN [i \in 1..(MAX_SCROLLABLE_ROWS + 1) |-> ZeroLayout]
              ELSE ScreenDef(a).fields]
  /\ scrollableStack = [i \in 0..(MAX_SCROLLABLE_DEPTH - 1) |-> NULL]
  /\ scrollableStackPtr = 0
  /\ curActiveEditable = NULL
  /\ forceScrollableRelayout = FALSE
  /\ blinkChanged = FALSE
  /\ blinkOn = FALSE
  /\ blinkCounter = 0
  /\ oldForceLabels = FALSE
  /\ forceLabels = FALSE
  /\ curScreen = NULL
  /\ screenDirty = FALSE
  /\ fault = "none"
  /\ linked = screens
  /\ probeCfg = NoProbe
  /\ linkAdjacent \in adjacent
  /\ op = Idle
  /\ ret = NoRet
  /\ log = <<>>

\* ------------------------------------------------------------ helpers
Ok(S) == S.fault = "none"

\* a failed assert(): the firmware stops where it is
Fail(S, what) == [S EXCEPT !.fault = what]

SetDirty(S, f, b) == [S EXCEPT !.field[f].dirty = b]

Emit(S, e) == [S EXCEPT !.log = Append(@, e)]

Return(S, b) == [S EXCEPT !.rv = b]

\* &s->scrollable.entries[k]: past the End sentinel the pointer leaves the
\* array; it then names the next declared array's Field when the build keeps
\* declaration order, and memory outside every menu otherwise.
EntryAt(S, s, k) ==
  IF k < Len(Entries(s)) THEN Entries(s)[k + 1]
  ELSE IF S.linkAdjacent /\ BaseIn(DeclOrder, s) + k < Len(MenuMem)
       THEN MenuMem[BaseIn(DeclOrder, s) + k + 1]
       ELSE "beyond"

\* static Field* getActiveScrollable()
getActiveScrollable(S) ==
  IF S.scrollableStackPtr # 0 THEN S.scrollableStack[S.scrollableStackPtr - 1] ELSE NULL

\* ------------------------------------------------------------ fieldPrintf
\* fieldPrintf without the strcmp: every call marks the field dirty
fieldPrintf_alwaysDirty(S, f, str) ==
  [S EXCEPT !.field[f].msg = vsnprintf(MAX_FIELD_LEN, str), !.field[f].dirty = TRUE]

\* void fieldPrintf(Field *field, const char *fmt, ...); str is the expansion
\* of fmt with its arguments
fieldPrintf(S, f, str) ==
  LET buf == vsnprintf(MAX_FIELD_LEN, str)
  IN IF buf # S.field[f].msg
     THEN [S EXCEPT !.field[f].msg = buf, !.field[f].dirty = TRUE]
     ELSE S

\* ------------------------------------------------------------ editable engine
\* unsigned comparison of two 32 bit patterns
ULess(a, b) == IF (a < 0) = (b < 0) THEN a < b ELSE b < 0

WidthOk(size) == size \in {1, 2, 4}

\* static int32_t getEditableNumber(Field *field): the cell read through a
\* uint8_t, an int16_t or an int32_t pointer
getEditableNumber(size, raw) ==
  CASE size = 1 -> raw
    [] size = 2 -> IF raw >= 32768 THEN raw - 65536 ELSE raw
    [] size = 4 -> raw
    [] OTHER -> 0

\* static void setEditableNumber(Field *field, uint32_t v): the cell written
\* through a uint8_t, a uint16_t or a uint32_t pointer
setEditableNumber(size, raw, v) ==
  CASE size = 1 -> v % 256
    [] size = 2 -> v % 65536
    [] size = 4 -> v
    [] OTHER -> raw

\* static int countEnumOptions(Field *s)
RECURSIVE countFrom(_, _)
countFrom(options, n) ==
  IF options[n + 1] # NULL THEN countFrom(options, n + 1) ELSE n

countEnumOptions(e) == countFrom(e.options, 0)

\* a step that is stored as it comes out, without the two range tests
changeUInt_noClamp(e, v, increment) ==
  v + (IF e.inc_step = 0 THEN 1 ELSE e.inc_step) * (IF increment THEN 1 ELSE -1)

\* case EditUInt of changeEditable: the new value of v
changeUInt(e, v, increment) ==
  LET step == IF e.inc_step = 0 THEN 1 ELSE e.inc_step
      v1 == v + step * (IF increment THEN 1 ELSE -1)
  IN IF ULess(v1, e.min_value) THEN e.max_value
     ELSE IF ULess(e.max_value, v1) THEN e.min_value
     ELSE v1

\* an enum step that stops at the ends instead of looping around
changeEnum_noWrap(e, v, increment) ==
  LET numOpts == countEnumOptions(e)
      v1 == v + (IF increment THEN 1 ELSE -1)
  IN IF v1 < 0 THEN 0
     ELSE IF v1 >= numOpts THEN numOpts - 1
     ELSE v1

\* case EditEnum of changeEditable: the new value of v
changeEnum(e, v, increment) ==
  LET numOpts == countEnumOptions(e)
      v1 == v + (IF increment THEN 1 ELSE -1)
  IN IF v1 < 0 THEN numOpts - 1
     ELSE IF v1 >= numOpts THEN 0
     ELSE v1

\* changeEditable on an editable e whose cell holds raw: the cell afterwards
changeCell(e, raw, increment) ==
  LET v == getEditableNumber(e.size, raw)
  IN setEditableNumber(e.size, raw,
       IF e.typ = "EditUInt" THEN changeUInt(e, v, increment)
       ELSE changeEnum(e, v, increment))

\* static void changeEditable(bool increment)
changeEditable(S, increment) ==
  LET f == S.curActiveEditable
      e == Editable(f)
  IN IF f = NULL THEN Fail(S, "assert(f)")
     ELSE IF ~WidthOk(e.size) THEN Fail(S, "assert(0) editable size")
     ELSE IF e.typ \notin {"EditUInt", "EditEnum"} THEN Fail(S, "assert(0) editable typ")
     ELSE [S EXCEPT !.cell[e.target] = changeCell(e, @, increment)]

\* ------------------------------------------------------------ scrollable stack
\* enterScrollable built with NDEBUG: the assertion is compiled out
enterScrollable_unchecked(S, f) ==
  LET S1 == [S EXCEPT !.scrollableStack[S.scrollableStackPtr] = f,
                      !.scrollableStackPtr = @ + 1]
      S2 == [S1 EXCEPT !.field[f].blink = TRUE]
  IN [S2 EXCEPT !.field[S2.scrollableStack[0]].dirty = TRUE,
                !.forceScrollableRelayout = TRUE]

\* enterScrollable without f->blink = true
enterScrollable_noBlink(S, f) ==
  IF ~(S.scrollableStackPtr < MAX_SCROLLABLE_DEPTH)
  THEN Fail(S, "assert(scrollableStackPtr < MAX_SCROLLABLE_DEPTH)")
  ELSE LET S1 == [S EXCEPT !.scrollableStack[S.scrollableStackPtr] = f,
                           !.scrollableStackPtr = @ + 1]
       IN [S1 EXCEPT !.field[S1.scrollableStack[0]].dirty = TRUE,
                     !.forceScrollableRelayout = TRUE]

\* enterScrollable that rewinds the scrollable it enters to its first entry
enterScrollable_rewinds(S, f) ==
  IF ~(S.scrollableStackPtr < MAX_SCROLLABLE_DEPTH)
  THEN Fail(S, "assert(scrollableStackPtr < MAX_SCROLLABLE_DEPTH)")
  ELSE LET S1 == [S EXCEPT !.scrollableStack[S.scrollableStackPtr] = f,
                           !.scrollableStackPtr = @ + 1]
           S2 == [S1 EXCEPT !.field[f].blink = TRUE,
                            !.field[f].first = 0, !.field[f].selected = 0]
       IN [S2 EXCEPT !.field[S2.scrollableStack[0]].dirty = TRUE,
                     !.forceScrollableRelayout = TRUE]

\* static void enterScrollable(Field *f)
enterScrollable(S, f) ==
  IF ~(S.scrollableStackPtr < MAX_SCROLLABLE_DEPTH)
  THEN Fail(S, "assert(scrollableStackPtr < MAX_SCROLLABLE_DEPTH)")
  ELSE LET S1 == [S EXCEPT !.scrollableStack[S.scrollableStackPtr] = f,
                           !.scrollableStackPtr = @ + 1]
           S2 == [S1 EXCEPT !.field[f].blink = TRUE]
       IN [S2 EXCEPT !.field[S2.scrollableStack[0]].dirty = TRUE,
                     !.forceScrollableRelayout = TRUE]

\* exitScrollable that reports every exit as handled
exitScrollable_claims(S) ==
  IF ~(S.scrollableStackPtr > 0)
  THEN Fail(S, "assert(scrollableStackPtr > 0)")
  ELSE LET S1 == [S EXCEPT !.scrollableStackPtr = @ - 1]
           f == getActiveScrollable(S1)
       IN IF f # NULL
          THEN Return([S1 EXCEPT !.field[f].dirty = TRUE,
                                 !.forceScrollableRelayout = TRUE], TRUE)
          ELSE Return(S1, TRUE)

\* exitScrollable that reports no exit as handled
exitScrollable_declines(S) ==
  IF ~(S.scrollableStackPtr > 0)
  THEN Fail(S, "assert(scrollableStackPtr > 0)")
  ELSE LET S1 == [S EXCEPT !.scrollableStackPtr = @ - 1]
           f == getActiveScrollable(S1)
       IN IF f # NULL
          THEN Return([S1 EXCEPT !.field[f].dirty = TRUE,
                                 !.forceScrollableRelayout = TRUE], FALSE)
          ELSE Return(S1, FALSE)

\* static bool exitScrollable()
exitScrollable(S) ==
  IF ~(S.scrollableStackPtr > 0)
  THEN Fail(S, "assert(scrollableStackPtr > 0)")
  ELSE LET S1 == [S EXCEPT !.scrollableStackPtr = @ - 1]
           f == getActiveScrollable(S1)
       IN IF f # NULL
          THEN Return([S1 EXCEPT !.field[f].dirty = TRUE,
                                 !.forceScrollableRelayout = TRUE], TRUE)
          ELSE Return(S1, FALSE)

\* static void forceScrollableRender()
forceScrollableRender(S) ==
  IF getActiveScrollable(S) = NULL THEN Fail(S, "assert(active)")
  ELSE [S EXCEPT !.field[S.scrollableStack[0]].dirty = TRUE,
                 !.forceScrollableRelayout = TRUE]

\* int countEntries(Field *s)
RECURSIVE countEntriesFrom(_, _, _)
countEntriesFrom(S, s, n) ==
  IF S.field[EntryAt(S, s, n)].variant # "FieldEnd"
  THEN countEntriesFrom(S, s, n + 1) ELSE n

\* a count that takes the End sentinel for an entry
countEntries_withEnd(S, s) == countEntriesFrom(S, s, 0) + 1

countEntries(S, s) == countEntriesFrom(S, s, 0)

\* ------------------------------------------------------------ leaf renderers
\* static bool needsRender(FieldLayout *layout)
\* the test without its third clause: an Editable is drawn only when dirty
needsRender_noEditable(S, layout) ==
  \/ S.field[layout.field].dirty
  \/ (S.field[layout.field].blink /\ S.blinkChanged)

needsRender(S, layout) ==
  \/ S.field[layout.field].dirty
  \/ (S.field[layout.field].blink /\ S.blinkChanged)
  \/ S.field[layout.field].variant = "FieldEditable"

\* static bool renderDrawText(FieldLayout *layout)
renderDrawText(S, arr, i) ==
  IF S.lay[arr][i].font = NULL THEN Fail(S, "assert(font)") ELSE Return(S, TRUE)

\* static bool renderFill(FieldLayout *layout)
renderFill(S, arr, i) ==
  IF ~(S.lay[arr][i].width >= 1) THEN Fail(S, "assert(layout->width >= 1)")
  ELSE IF ~(S.lay[arr][i].height >= 1) THEN Fail(S, "assert(layout->height >= 1)")
  ELSE Return(S, TRUE)

\* static bool renderMesh(FieldLayout *layout)
renderMesh(S, arr, i) ==
  IF ~(S.lay[arr][i].width >= 1) THEN Fail(S, "assert(layout->width >= 1)")
  ELSE IF ~(S.lay[arr][i].height >= 1) THEN Fail(S, "assert(layout->height >= 1)")
  ELSE Return(S, TRUE)

\* static bool renderEnd(FieldLayout *layout)
renderEnd(S, arr, i) == Fail(S, "assert(0) renderEnd")

\* the press-and-hold sampling at the head of renderEditable
pollUp(S, f) ==
  IF S.btn.up THEN changeEditable(Emit(S, <<"change", f, TRUE>>), TRUE) ELSE S

pollDown(S, f) ==
  IF Ok(S) /\ S.btn.down THEN changeEditable(Emit(S, <<"change", f, FALSE>>), FALSE) ELSE S

\* the sampling on every pass, without the test of blinkChanged
pollEditable_everyPass(S, f) ==
  IF S.curActiveEditable = f /\ ~Editable(f).read_only
  THEN pollDown(pollUp(S, f), f)
  ELSE S

pollEditable(S, f) ==
  IF S.curActiveEditable = f /\ S.blinkChanged /\ ~Editable(f).read_only
  THEN pollDown(pollUp(S, f), f)
  ELSE S

\* uint32_t num = getEditableNumber(field) of renderEditable
editableNumber(S, arr, i) ==
  LET e == Editable(S.lay[arr][i].field)
  IN getEditableNumber(e.size, S.cell[e.target])

\* what renderEditable has read when it decides whether to draw: field->dirty
\* on entry, num, layout->old_editable and forceLabels != oldForceLabels
readEditable(S, arr, i, dirty0) ==
  Emit(S, <<"editable", arr, i, S.lay[arr][i].field, dirty0, editableNumber(S, arr, i),
            S.lay[arr][i].old_editable, S.forceLabels # S.oldForceLabels>>)

\* a renderer that never updates the cached value
cacheEditable_stale(S, arr, i) == S

\* if (num != layout->old_editable) layout->old_editable = num
cacheEditable(S, arr, i) ==
  IF editableNumber(S, arr, i) # S.lay[arr][i].old_editable
  THEN [S EXCEPT !.lay[arr][i].old_editable = editableNumber(S, arr, i)]
  ELSE S

\* the rest of renderEditable once dirty is known
drawEditable(S, arr, i, dirty) ==
  IF ~dirty THEN Return(S, FALSE)
  ELSE IF Editable(S.lay[arr][i].field).typ \notin {"EditUInt", "EditEnum"}
  THEN Fail(S, "assert(0) editable typ")
  ELSE Return(S, TRUE)

\* renderEditable after the sampling; dirty0 is field->dirty read on entry
showEditable(S, arr, i, dirty0) ==
  IF ~Ok(S) THEN S
  ELSE IF ~WidthOk(Editable(S.lay[arr][i].field).size) THEN Fail(S, "assert(0) editable size")
  ELSE drawEditable(cacheEditable(readEditable(S, arr, i, dirty0), arr, i), arr, i,
                    \/ dirty0
                    \/ editableNumber(S, arr, i) # S.lay[arr][i].old_editable
                    \/ S.forceLabels # S.oldForceLabels)

\* static bool renderEditable(FieldLayout *layout)
renderEditable(S, arr, i) ==
  showEditable(pollEditable(S, S.lay[arr][i].field), arr, i,
               S.field[S.lay[arr][i].field].dirty)

\* ------------------------------------------------------------ render pass
BlankRow(i) ==
  CASE i = 0 -> "blankRows0" [] i = 1 -> "blankRows1"
    [] i = 2 -> "blankRows2" [] OTHER -> "blankRows3"

\* the box of rows + i (C index i), copied from the caller's layout (arr, li)
rowBox(S, arr, li, i) ==
  [S EXCEPT !.lay["rows"][i + 1].x = S.lay[arr][li].x,
            !.lay["rows"][i + 1].y = S.lay[arr][li].y + rowHeight * i,
            !.lay["rows"][i + 1].width = S.lay[arr][li].width,
            !.lay["rows"][i + 1].height = rowHeight - 1,
            !.lay["rows"][i + 1].border = {}]

\* if (i == 0): the heading
headingRow(S, f) ==
  [fieldPrintf(S, "heading", Label(f))
     EXCEPT !.lay["rows"][1].field = "heading",
            !.lay["rows"][1].color = "ColorNormal",
            !.lay["rows"][1].border = {"BorderBottom", "BorderFat"},
            !.lay["rows"][1].font = heading_font]

\* a row loop that does not look for the End sentinel
rowMore_ignoresEnd(S, f, i, hasMoreRows) == hasMoreRows

\* hasMoreRows after row i has looked at its entry
rowMore(S, f, i, hasMoreRows) ==
  IF i = 0 THEN hasMoreRows
  ELSE hasMoreRows /\ S.field[EntryAt(S, f, S.field[f].first + i - 1)].variant # "FieldEnd"

\* r->field->dirty = true
markRow(S, i) == SetDirty(S, S.lay["rows"][i + 1].field, TRUE)

\* a relayout that marks the first visible row, whatever selected is
entryRow_selectsFirst(S, f, i, more) ==
  LET entryNum == S.field[f].first + i - 1
      entry == EntryAt(S, f, entryNum)
  IN markRow(IF more
             THEN [SetDirty(S, entry, TRUE)
                     EXCEPT !.lay["rows"][i + 1].field = entry,
                            !.field[entry].is_selected = (i = 1)]
             ELSE [SetDirty(S, entry, TRUE)
                     EXCEPT !.lay["rows"][i + 1].field = BlankRow(i),
                            !.field[BlankRow(i)].variant = "FieldFill",
                            !.lay["rows"][i + 1].color = "ColorInvert"],
             i)

\* else: a visible menu row; more is hasMoreRows after this entry
entryRow(S, f, i, more) ==
  LET entryNum == S.field[f].first + i - 1
      entry == EntryAt(S, f, entryNum)
  IN markRow(IF more
             THEN [SetDirty(S, entry, TRUE)
                     EXCEPT !.lay["rows"][i + 1].field = entry,
                            !.field[entry].is_selected = (entryNum = S.field[f].selected)]
             ELSE [SetDirty(S, entry, TRUE)
                     EXCEPT !.lay["rows"][i + 1].field = BlankRow(i),
                            !.field[BlankRow(i)].variant = "FieldFill",
                            !.lay["rows"][i + 1].color = "ColorInvert"],
             i)

\* rows[MAX_SCROLLABLE_ROWS].field = NULL
endRows(S) == [S EXCEPT !.lay["rows"][MAX_SCROLLABLE_ROWS + 1].field = NULL]

\* one turn of the row loop of renderActiveScrollable
relayoutRow(S, arr, li, f, i, hasMoreRows) ==
  endRows(IF i = 0 THEN headingRow(rowBox(S, arr, li, i), f)
          ELSE entryRow(rowBox(S, arr, li, i), f, i, rowMore(S, f, i, hasMoreRows)))

RECURSIVE relayoutRows(_, _, _, _, _, _)
relayoutRows(S, arr, li, f, i, hasMoreRows) ==
  IF i >= MAX_SCROLLABLE_ROWS THEN S
  ELSE relayoutRows(relayoutRow(S, arr, li, f, i, hasMoreRows), arr, li, f, i + 1,
                    rowMore(S, f, i, hasMoreRows))

\* the collapsed branch of renderActiveScrollable: the box of rows[0]
collapsedBox(S, arr, li) ==
  [S EXCEPT !.lay["rows"][1].x = S.lay[arr][li].x,
            !.lay["rows"][1].y = S.lay[arr][li].y,
            !.lay["rows"][1].width = S.lay[arr][li].width,
            !.lay["rows"][1].height = S.lay[arr][li].height,
            !.lay["rows"][1].border = {}]

\* label.is_selected of the collapsed branch
labelSelected(S, f) ==
  IF getActiveScrollable(S) # NULL
  THEN f = EntryAt(S, getActiveScrollable(S), S.field[getActiveScrollable(S)].selected)
  ELSE FALSE

\* the collapsed branch of renderActiveScrollable: rows[0] becomes the label
collapsedLabel(S, f) ==
  [S EXCEPT !.lay["rows"][1].field = "label",
            !.lay["rows"][1].color = "ColorNormal",
            !.lay["rows"][1].font = scrollable_font,
            !.field["label"].is_selected = labelSelected(S, f),
            !.lay["rows"][2].field = NULL]

collapsedRow(S, arr, li, f) ==
  collapsedLabel(fieldPrintf(collapsedBox(S, arr, li), "label", Label(f)), f)

RECURSIVE renderLayouts(_, _, _)
RECURSIVE renderLoop(_, _, _, _)
RECURSIVE renderers(_, _, _)

\* static bool renderActiveScrollable(FieldLayout *layout, Field *field)
renderActiveScrollable(S, arr, li, f) ==
  renderLayouts(
    IF getActiveScrollable(S) = f
    THEN IF S.forceScrollableRelayout \/ S.blinkChanged
         THEN relayoutRows(Emit([S EXCEPT !.forceScrollableRelayout = FALSE], <<"relayout", f>>),
                           arr, li, f, 0, TRUE)
         ELSE S
    ELSE collapsedRow(S, arr, li, f),
    "rows", FALSE)

\* renderScrollable once the stack holds the root
renderRoot(S, arr, li) ==
  IF ~Ok(S) THEN S
  ELSE renderActiveScrollable(S, arr, li,
         IF S.scrollableStack[0] = S.lay[arr][li].field
         THEN getActiveScrollable(S) ELSE S.lay[arr][li].field)

\* a renderer that does not use the layout to set up an empty stack
renderScrollable_noEnter(S, arr, li) == renderRoot(S, arr, li)

\* static bool renderScrollable(FieldLayout *layout)
renderScrollable(S, arr, li) ==
  renderRoot(IF getActiveScrollable(S) = NULL
             THEN enterScrollable(S, S.lay[arr][li].field) ELSE S,
             arr, li)

\* static const FieldRenderFn renderers[]
renderers(S, arr, i) ==
  LET v == S.field[S.lay[arr][i].field].variant
  IN CASE v = "FieldDrawText" -> renderDrawText(S, arr, i)
       [] v = "FieldFill" -> renderFill(S, arr, i)
       [] v = "FieldMesh" -> renderMesh(S, arr, i)
       [] v = "FieldScrollable" -> renderScrollable(S, arr, i)
       [] v = "FieldEditable" -> renderEditable(S, arr, i)
       [] OTHER -> renderEnd(S, arr, i)

\* the auto-layout shorthands renderLayouts resolves before a layout is drawn
resolveWidth0(S, arr, i) ==
  IF S.lay[arr][i].width = 0
  THEN [S EXCEPT !.lay[arr][i].width = screenWidth - S.lay[arr][i].x] ELSE S

resolveHeight0(S, arr, i) ==
  IF S.lay[arr][i].height = 0
  THEN [S EXCEPT !.lay[arr][i].height = screenHeight - S.lay[arr][i].y] ELSE S

resolveFontHeight(S, arr, i) ==
  IF S.lay[arr][i].height # -1 THEN S
  ELSE IF S.lay[arr][i].font = NULL THEN Fail(S, "assert(layout->font)")
  ELSE [S EXCEPT !.lay[arr][i].height = FontMetrics(S.lay[arr][i].font).char_height]

resolveCharWidth(S, arr, i) ==
  IF ~Ok(S) \/ ~(S.lay[arr][i].width < 0) THEN S
  ELSE IF S.lay[arr][i].font = NULL THEN Fail(S, "assert(layout->font)")
  ELSE [S EXCEPT !.lay[arr][i].width =
          (-S.lay[arr][i].width) * (FontMetrics(S.lay[arr][i].font).char_width + char_h_space)]

resolveY(S, arr, i) ==
  IF Ok(S) /\ S.lay[arr][i].y < 0
  THEN [S EXCEPT !.lay[arr][i].y = S.L.maxy + (-S.lay[arr][i].y) - 1] ELSE S

resolveLayout(S, arr, i) ==
  resolveY(resolveCharWidth(resolveFontHeight(resolveHeight0(resolveWidth0(S, arr, i),
                                                             arr, i), arr, i), arr, i), arr, i)

\* the locals of a renderLayouts call: didDraw, maxy, didChangeForceLabels
NewLocals == [didDraw |-> FALSE, maxy |-> 0, didChangeForceLabels |-> FALSE]

\* a forced pass that leaves the dirty flags as they are
markLayout_unforced(S, arr, i, forceRender) == S

\* the head of the loop body: forced dirty, and forceLabels for an editable
markLayout(S, arr, i, forceRender) ==
  IF forceRender THEN SetDirty(S, S.lay[arr][i].field, TRUE) ELSE S

labelLayout(S, arr, i) ==
  IF S.field[S.lay[arr][i].field].variant = "FieldEditable"
  THEN [S EXCEPT !.forceLabels = S.btn.m /\ S.lay[arr][i].modifier = "ModNoLabel",
                 !.L.didChangeForceLabels = TRUE]
  ELSE S

\* didDraw |= renderers[layout->field->variant](layout)
dispatch(S, arr, i) ==
  IF Ok(S) THEN renderers(Emit(S, <<"dispatch", arr, i, S.lay[arr][i].field>>), arr, i) ELSE S

\* after the renderer of layout i, which named field f, has run
afterRender(S, arr, i, f) ==
  IF ~Ok(S) THEN S
  ELSE [(IF S.rv THEN Emit(S, <<"drew", arr, i, f>>) ELSE S)
          EXCEPT !.L.didDraw = @ \/ S.rv,
                 !.L.maxy = IF S.lay[arr][i].y + S.lay[arr][i].height > @
                            THEN S.lay[arr][i].y + S.lay[arr][i].height ELSE @]

\* the loop has reached layout i and is about to test it: the Field's dirty and
\* blink flags as needsRender reads them
visit(S, arr, i) ==
  Emit(S, <<"visit", arr, i, S.lay[arr][i].field,
            S.field[S.lay[arr][i].field].dirty, S.field[S.lay[arr][i].field].blink>>)

\* if (needsRender(layout)) { ... }
renderOne(S, arr, i) ==
  IF needsRender(S, S.lay[arr][i])
  THEN afterRender(dispatch(resolveLayout(visit(S, arr, i), arr, i), arr, i), arr, i,
                   S.lay[arr][i].field)
  ELSE visit(S, arr, i)

\* the first loop of renderLayouts from layout i on
renderLoop(S, arr, i, forceRender) ==
  IF ~Ok(S) \/ S.lay[arr][i].field = NULL THEN S
  ELSE renderLoop(renderOne(labelLayout(markLayout(S, arr, i, forceRender), arr, i), arr, i),
                  arr, i + 1, forceRender)

\* the second loop of renderLayouts: the dirty bits are cleared
RECURSIVE clearLoop(_, _, _)
clearLoop(S, arr, i) ==
  IF S.lay[arr][i].field = NULL THEN S
  ELSE clearLoop(Emit(SetDirty(S, S.lay[arr][i].field, FALSE),
                      <<"clear", arr, i, S.lay[arr][i].field>>), arr, i + 1)

\* if (didChangeForceLabels) oldForceLabels = forceLabels
keepForceLabels(S) ==
  IF S.L.didChangeForceLabels THEN [S EXCEPT !.oldForceLabels = S.forceLabels] ELSE S

\* return didDraw, to a caller whose own locals are callerL
returnDidDraw(S, callerL) == [S EXCEPT !.rv = S.L.didDraw, !.L = callerL]

finishLayouts(S, arr, callerL) ==
  IF ~Ok(S) THEN S ELSE returnDidDraw(keepForceLabels(clearLoop(S, arr, 1)), callerL)

\* const bool renderLayouts(FieldLayout *layouts, bool forceRender)
renderLayouts(S, arr, forceRender) ==
  finishLayouts(renderLoop([S EXCEPT !.L = NewLocals], arr, 1, forceRender), arr, S.L)

\* ------------------------------------------------------------ button dispatch
\* if (events & ONOFF_CLICK) of onPressEditable
leaveEditable(S, events) ==
  IF "ONOFF_CLICK" \in events THEN [S EXCEPT !.curActiveEditable = NULL] ELSE S

\* if (handled) { s->dirty = true; if (getActiveScrollable()) scrollableStack[0]->dirty = true; }
redrawEdited(S, s) ==
  IF getActiveScrollable(S) # NULL
  THEN SetDirty(SetDirty(S, s, TRUE), S.scrollableStack[0], TRUE)
  ELSE SetDirty(S, s, TRUE)

\* onPressEditable that claims the exit click only
onPressEditable_exitOnly(S, events) ==
  IF "ONOFF_CLICK" \in events
  THEN Return(redrawEdited(leaveEditable(S, events), S.curActiveEditable), TRUE)
  ELSE Return(S, FALSE)

\* onPressEditable whose exit click also pops the navigation stack
onPressEditable_alsoPops(S, events) ==
  IF ("UP_CLICK" \in events) \/ ("DOWN_CLICK" \in events) \/ ("ONOFF_CLICK" \in events)
  THEN Return(redrawEdited(IF "ONOFF_CLICK" \in events /\ S.scrollableStackPtr > 0
                           THEN exitScrollable(leaveEditable(S, events))
                           ELSE leaveEditable(S, events),
                           S.curActiveEditable), TRUE)
  ELSE Return(S, FALSE)

\* static bool onPressEditable(buttons_events_t events)
onPressEditable(S, events) ==
  IF ("UP_CLICK" \in events) \/ ("DOWN_CLICK" \in events) \/ ("ONOFF_CLICK" \in events)
  THEN Return(redrawEdited(leaveEditable(S, events), S.curActiveEditable), TRUE)
  ELSE Return(S, FALSE)

\* an UP click that wraps from the first entry to the last
selectUp_wraps(S, s) ==
  IF S.field[s].selected >= 1 THEN [S EXCEPT !.field[s].selected = @ - 1]
  ELSE [S EXCEPT !.field[s].selected = countEntries(S, s) - 1]

\* if (s->scrollable.selected >= 1) s->scrollable.selected--
selectUp(S, s) ==
  IF S.field[s].selected >= 1 THEN [S EXCEPT !.field[s].selected = @ - 1] ELSE S

\* if (s->scrollable.selected < s->scrollable.first) s->scrollable.first = s->scrollable.selected
scrollUp(S, s) ==
  IF S.field[s].selected < S.field[s].first
  THEN [S EXCEPT !.field[s].first = S.field[s].selected] ELSE S

\* if (events & UP_CLICK) of onPressScrollable
pressUp(S, s) == Return(forceScrollableRender(scrollUp(selectUp(S, s), s)), TRUE)

\* a DOWN click that wraps from the last entry to the first
selectDown_wraps(S, s) ==
  IF S.field[s].selected < countEntries(S, s) - 1
  THEN [S EXCEPT !.field[s].selected = @ + 1] ELSE [S EXCEPT !.field[s].selected = 0]

\* if (s->scrollable.selected < numEntries - 1) s->scrollable.selected++
selectDown(S, s) ==
  IF S.field[s].selected < countEntries(S, s) - 1
  THEN [S EXCEPT !.field[s].selected = @ + 1] ELSE S

\* if (s->scrollable.selected > lastVisibleRow) s->scrollable.first = ...
scrollDown(S, s) ==
  LET numDataRows == MAX_SCROLLABLE_ROWS - 1
      lastVisibleRow == S.field[s].first + numDataRows - 1
  IN IF S.field[s].selected > lastVisibleRow
     THEN [S EXCEPT !.field[s].first = S.field[s].selected - numDataRows + 1] ELSE S

\* DOWN_CLICK that moves the selection and never scrolls the window
pressDown_noScroll(S, s) == Return(forceScrollableRender(selectDown(S, s)), TRUE)

\* if (events & DOWN_CLICK) of onPressScrollable
pressDown(S, s) == Return(forceScrollableRender(scrollDown(selectDown(S, s), s)), TRUE)

\* case FieldScrollable of the M_CLICK switch, after enterScrollable
entered(S) == IF Ok(S) THEN Return(S, TRUE) ELSE S

\* the M_CLICK switch without the test of read_only
pressSelect_anyEditable(S, s) ==
  LET clicked == EntryAt(S, s, S.field[s].selected)
      v == S.field[clicked].variant
  IN IF v = "FieldEditable"
     THEN Return(forceScrollableRender(
                   SetDirty([S EXCEPT !.curActiveEditable = clicked], clicked, TRUE)), TRUE)
     ELSE IF v = "FieldScrollable" THEN entered(enterScrollable(S, clicked))
     ELSE S

\* if (events & M_CLICK) of onPressScrollable
pressSelect(S, s) ==
  LET clicked == EntryAt(S, s, S.field[s].selected)
      v == S.field[clicked].variant
  IN IF v = "FieldEditable"
     THEN IF ~Editable(clicked).read_only
          THEN Return(forceScrollableRender(
                        SetDirty([S EXCEPT !.curActiveEditable = clicked], clicked, TRUE)), TRUE)
          ELSE S
     ELSE IF v = "FieldScrollable" THEN entered(enterScrollable(S, clicked))
     ELSE S

\* the four tests of onPressScrollable, in the order of the code; s was read
\* on entry and is not moved by the tests before the one that uses it
clickUp(S, events) ==
  IF "UP_CLICK" \in events THEN pressUp(S, getActiveScrollable(S)) ELSE S

clickDown(S, events) ==
  IF Ok(S) /\ "DOWN_CLICK" \in events THEN pressDown(S, getActiveScrollable(S)) ELSE S

clickSelect(S, events) ==
  IF Ok(S) /\ "M_CLICK" \in events THEN pressSelect(S, getActiveScrollable(S)) ELSE S

clickExit(S, events) ==
  IF Ok(S) /\ "ONOFF_CLICK" \in events THEN exitScrollable(S) ELSE S

\* static bool onPressScrollable(buttons_events_t events); rv carries handled
onPressScrollable(S, events) ==
  IF getActiveScrollable(S) = NULL THEN Return(S, FALSE)
  ELSE clickExit(clickSelect(clickDown(clickUp(Return(S, FALSE), events), events), events),
                 events)

\* a layer has answered: rv is its answer
Consult(S, layer) == [S EXCEPT !.called = Append(@, <<layer, S.rv>>)]

\* if (curActiveEditable) handled |= onPressEditable(events); rv carries handled
consultEditable(S, events) ==
  IF S.curActiveEditable # NULL
  THEN Consult(onPressEditable(S, events), "editable") ELSE Return(S, FALSE)

\* if (!handled) handled |= onPressScrollable(events)
consultScrollable(S, events) ==
  IF Ok(S) /\ ~S.rv THEN Consult(onPressScrollable(S, events), "scrollable") ELSE S

\* if (!handled && curScreen && curScreen->onPress) handled |= curScreen->onPress(events)
consultScreen(S, handlerResult) ==
  IF Ok(S) /\ ~S.rv /\ S.curScreen # NULL /\ ScreenDef(S.curScreen).onPress
  THEN Consult(Return(S, handlerResult), "screen") ELSE S

\* handled |= onPressScrollable(events), without the test of handled before it
alsoScrollable(S, events, handled) ==
  IF Ok(S) THEN [Consult(onPressScrollable(S, events), "scrollable") EXCEPT !.rv = handled \/ @]
  ELSE S

\* screenOnPress that consults the scrollable layer whatever the editable said
screenOnPress_noStop(S, events, handlerResult) ==
  consultScreen(alsoScrollable(consultEditable(S, events), events,
                               consultEditable(S, events).rv),
                handlerResult)

\* bool screenOnPress(buttons_events_t events); handlerResult is what the
\* current screen's onPress function returns if it is called
screenOnPress(S, events, handlerResult) ==
  consultScreen(consultScrollable(consultEditable(S, events), events), handlerResult)

\* ------------------------------------------------------------ screen controller
\* blinkCounter = (blinkCounter + 1) % 10 and what follows from it
\* blinkOn flipped by every call, not only when the counter wraps
blinkTick_flipsAlways(S) ==
  LET c == (S.blinkCounter + 1) % BlinkPeriod
  IN [S EXCEPT !.blinkCounter = c,
               !.blinkChanged = (c = 0),
               !.blinkOn = ~@]

blinkTick(S) ==
  LET c == (S.blinkCounter + 1) % BlinkPeriod
  IN [S EXCEPT !.blinkCounter = c,
               !.blinkChanged = (c = 0),
               !.blinkOn = IF c = 0 THEN ~@ ELSE @]

\* if (screenDirty) UG_FillScreen(C_BLACK)
clearScreen(S) == IF S.screenDirty THEN Emit(S, <<"UG_FillScreen">>) ELSE S

\* lcd_refresh() on every pass, whatever didDraw says
flush_always(S, wasDirty) ==
  IF ~Ok(S) THEN S
  ELSE [Emit(S, <<"lcd_refresh">>) EXCEPT !.screenDirty = FALSE]

\* if (didDraw) lcd_refresh(); screenDirty = false; rv is what renderLayouts returned
flush(S, wasDirty) ==
  IF ~Ok(S) THEN S
  ELSE [(IF wasDirty \/ S.rv THEN Emit(S, <<"lcd_refresh">>) ELSE S) EXCEPT !.screenDirty = FALSE]

drawScreen(S) == flush(renderLayouts(S, S.curScreen, S.screenDirty), S.screenDirty)

\* screenUpdate that advances the blink counter before it looks at curScreen
screenUpdate_ticksFirst(S) ==
  IF S.curScreen = NULL THEN blinkTick(S) ELSE drawScreen(clearScreen(blinkTick(S)))

\* void screenUpdate()
screenUpdate(S) ==
  IF S.curScreen = NULL THEN S ELSE drawScreen(clearScreen(blinkTick(S)))

\* panicScreenShow without scrollableStackPtr = 0
panicScreenShow_keepsStack(S, screen) ==
  screenUpdate([S EXCEPT !.curActiveEditable = NULL,
                         !.curScreen = screen,
                         !.screenDirty = TRUE])

\* void panicScreenShow(Screen *screen)
panicScreenShow(S, screen) ==
  screenUpdate([S EXCEPT !.curActiveEditable = NULL,
                         !.scrollableStackPtr = 0,
                         !.curScreen = screen,
                         !.screenDirty = TRUE])

\* curScreen->onExit(): the callback is external; the log keeps what it can
\* find when it runs (the current screen, the editable edited, the depth)
callOnExit(S) ==
  Emit(S, <<"onExit", S.curScreen, S.curActiveEditable, S.scrollableStackPtr>>)

\* screenShow that calls the exit callback after the new screen is shown
screenShow_exitLate(S, screen) ==
  IF S.curScreen # NULL /\ ScreenDef(S.curScreen).onExit
  THEN callOnExit(panicScreenShow(S, screen))
  ELSE panicScreenShow(S, screen)

\* void screenShow(Screen *screen)
screenShow(S, screen) ==
  panicScreenShow(IF S.curScreen # NULL /\ ScreenDef(S.curScreen).onExit
                  THEN callOnExit(S) ELSE S,
                  screen)

\* ------------------------------------------------------------ operations
\* a bound on the click flags one call of screenOnPress carries
MaxClicks == 2

\* the click events one call of screenOnPress can carry
Events == {e \in SUBSET ClickFlags : 1 <= Cardinality(e) /\ Cardinality(e) <= MaxClicks}

\* the strings the application formats into socField
PrintfStrings ==
  { <<"5">>,
    Chars(MAX_FIELD_LEN - 1, "x"),
    Chars(MAX_FIELD_LEN, "x"),
    Chars(MAX_FIELD_LEN - 1, "x") \o <<"y", "z">> }

\* A button state is sampled only by a pass that reads it: m by a pass over a
\* screen that holds an editable, up and down while an editable is edited.
SampleM ==
  IF curScreen # NULL /\ \E i \in DOMAIN ScreenDef(curScreen).fields :
        ScreenDef(curScreen).fields[i].field \in EditFields
  THEN BOOLEAN ELSE {FALSE}

SampleUpDown == IF curActiveEditable # NULL THEN BOOLEAN ELSE {FALSE}

\* what the current screen's onPress returns, where there is one
HandlerResults ==
  IF curScreen # NULL /\ ScreenDef(curScreen).onPress THEN BOOLEAN ELSE {FALSE}

ScreenShow(screen) ==
  /\ fault = "none" /\ op = Idle
  /\ Install(screenShow(Cur, screen))
  /\ op' = [name |-> "screenShow", screen |-> screen]
  /\ ret' = NoRet

ScreenUpdate(m, up, down) ==
  /\ fault = "none" /\ op = Idle
  /\ Install(screenUpdate([Cur EXCEPT !.btn = [m |-> m, up |-> up, down |-> down]]))
  /\ op' = [name |-> "screenUpdate", m |-> m, up |-> up, down |-> down,
             depth |-> scrollableStackPtr]
  /\ ret' = NoRet

\* the state and the returned value of a call that returns a bool
InstallRet(S) == Install(S) /\ ret' = [handled |-> S.rv, called |-> S.called]

ScreenOnPress(events, handlerResult) ==
  /\ fault = "none" /\ op = Idle
  /\ InstallRet(screenOnPress(Cur, events, handlerResult))
  /\ op' = [name |-> "screenOnPress", events |-> events,
             editing |-> curActiveEditable, depth |-> scrollableStackPtr]

FieldPrintf(f, str) ==
  /\ fault = "none" /\ op = Idle
  /\ Install(fieldPrintf(Cur, f, str))
  /\ op' = [name |-> "fieldPrintf", f |-> f, str |-> str,
             oldMsg |-> field[f].msg, wasDirty |-> field[f].dirty]
  /\ ret' = NoRet

\* one step of the value of the edited field (screenUpdate calls it on a blink
\* tick with up or down held)
ChangeEditable(increment) ==
  /\ fault = "none" /\ op = Idle
  /\ curActiveEditable # NULL
  /\ Install(changeEditable(Cur, increment))
  /\ op' = [name |-> "changeEditable", increment |-> increment,
             before |-> cell[Editable(curActiveEditable).target]]
  /\ ret' = NoRet

\* the call returns to the main loop; what it returned and drew is consumed
Returned ==
  /\ op # Idle
  /\ op' = Idle /\ ret' = NoRet /\ log' = <<>>
  /\ UNCHANGED prog

Show == \E screen \in linked : ScreenShow(screen)
Update == \E m \in SampleM, up \in SampleUpDown, down \in SampleUpDown : ScreenUpdate(m, up, down)
Press == \E events \in Events, handlerResult \in HandlerResults : ScreenOnPress(events, handlerResult)
Printf == \E str \in PrintfStrings : FieldPrintf("socField", str)

Change == \E increment \in BOOLEAN : ChangeEditable(increment)

\* screenShow of a linked screen or of no screen
ShowOrHide == \E screen \in linked \cup {NULL} : ScreenShow(screen)

NextMenu == Show \/ Update \/ Press \/ Returned
NextMain == Show \/ Update \/ Press \/ Printf \/ Returned
\* the presses of a user who only walks down the menu
PressDown == \E handlerResult \in HandlerResults : ScreenOnPress({"DOWN_CLICK"}, handlerResult)

\* the presses of a user who clicks one button at a time
PressOne ==
  \E click \in ClickFlags, handlerResult \in HandlerResults :
    ScreenOnPress({click}, handlerResult)

NextSwitch == Show \/ Update \/ PressOne \/ Returned
NextDown == Show \/ Update \/ PressDown \/ Returned
NextBlank == ShowOrHide \/ Update \/ Press \/ Printf \/ Returned

SpecList == InitOf({"listScreen"}, {FALSE}) /\ [][NextMenu]_vars
SpecDeep == InitOf({"deepScreen"}, BOOLEAN) /\ [][NextMenu]_vars
SpecSetup == InitOf({"setupScreen"}, {FALSE}) /\ [][NextMenu]_vars
SpecMain == InitOf({"mainScreen"}, {FALSE}) /\ [][NextMain]_vars
SpecMix == InitOf({"mixScreen"}, {FALSE}) /\ [][NextMenu]_vars
SpecBlank == InitOf({"mainScreen"}, {FALSE}) /\ [][NextBlank]_vars
SpecDown == InitOf({"listScreen", "deepScreen"}, {FALSE}) /\ [][NextDown]_vars
SpecSwitch == InitOf({"mainScreen", "setupScreen"}, {FALSE}) /\ [][NextSwitch]_vars
\* a build whose one screen shows an editable as a menu row and as a layout
SpecShare == InitOf({"shareScreen"}, {FALSE}) /\ [][NextSwitch]_vars

\* ------------------------------------------------------------ the editable engine alone
\* steps of inc_step, 0 standing for 1
MaxStep == 3

\* the longest option list of an enum
MaxOptions == 3

\* <<min_value, max_value>> of the numbers edited
ProbeRanges == {<<0, 0>>, <<0, 1>>, <<0, 9>>, <<1, 3>>, <<2, 2>>, <<5, 9>>}

ProbeNumber(size, min, max, step) ==
  [typ |-> "EditUInt", target |-> "probeCell", size |-> size,
   min_value |-> min, max_value |-> max, inc_step |-> step,
   read_only |-> FALSE, options |-> <<NULL>>]

\* an enum's cell is a uint8_t
ProbeEnum(n) ==
  [typ |-> "EditEnum", target |-> "probeCell", size |-> 1,
   min_value |-> 0, max_value |-> 0, inc_step |-> 0,
   read_only |-> FALSE, options |-> SubSeq(<<"Off", "Low", "High", "Max">>, 1, n) \o <<NULL>>]

\* numbers that span their cell: a uint8_t, a uint16_t and a (positive) int32_t,
\* stepped by a quarter of the span
WideProbes ==
  { ProbeNumber(1, 0, 255, 64), ProbeNumber(2, 0, 65535, 16384),
    ProbeNumber(4, 0, 1073741823, 268435456) }

ProbeCfgs ==
  {ProbeNumber(size, r[1], r[2], step) : size \in {1, 2, 4}, r \in ProbeRanges, step \in 0..MaxStep}
  \cup WideProbes
  \cup {ProbeEnum(n) : n \in 1..MaxOptions}

\* the values a probe can hold when editing starts
ProbeValues(e) ==
  IF e.typ = "EditEnum" THEN 0..(countEnumOptions(e) - 1)
  ELSE IF e \in WideProbes THEN {e.min_value + k * e.inc_step : k \in 0..3} \cup {e.max_value}
  ELSE e.min_value..e.max_value

\* "probe" is being edited: every metadata of ProbeCfgs, every value in range
InitEdit ==
  /\ field = [f \in Fields |-> InitField(f)]
  /\ probeCfg \in ProbeCfgs
  /\ \E v \in ProbeValues(probeCfg) : cell = [c \in Cells |-> IF c = "probeCell" THEN v ELSE InitCell(c)]
  /\ lay = [a \in LayoutArrays |->
              IF a = "rows" THEN [i \in 1..(MAX_SCROLLABLE_ROWS + 1) |-> ZeroLayout]
              ELSE ScreenDef(a).fields]
  /\ scrollableStack = [i \in 0..(MAX_SCROLLABLE_DEPTH - 1) |-> NULL]
  /\ scrollableStackPtr = 0
  /\ curActiveEditable = "probe"
  /\ forceScrollableRelayout = FALSE
  /\ blinkChanged = FALSE
  /\ blinkOn = FALSE
  /\ blinkCounter = 0
  /\ oldForceLabels = FALSE
  /\ forceLabels = FALSE
  /\ curScreen = NULL
  /\ screenDirty = FALSE
  /\ fault = "none"
  /\ linked = {}
  /\ linkAdjacent = FALSE
  /\ op = Idle
  /\ ret = NoRet
  /\ log = <<>>

NextEdit == Change \/ Returned

SpecEdit == InitEdit /\ [][NextEdit]_vars

\* ------------------------------------------------------------ the storage cell alone
\* editable.size of the cells written and read back; 3 is not a width the
\* switch of setEditableNumber and getEditableNumber knows
CellWidths == {1, 2, 3, 4}

\* values written: the ends and the sign bits of each width
CellSamples == {0, 1, 127, 128, 255, 256, 32767, 32768, 65535, 65536, 2147483647}

\* the values a cell of this many bytes can hold, among the samples
CellRange(size) ==
  CASE size = 1 -> {v \in CellSamples : v <= 255}
    [] size = 2 -> {v \in CellSamples : v <= 65535}
    [] OTHER -> CellSamples

\* setEditableNumber(field, v) on the edited Field, default branch included
storeNumber(S, v) ==
  IF ~WidthOk(Editable(S.curActiveEditable).size) THEN Fail(S, "assert(0) editable size")
  ELSE [S EXCEPT !.cell[Editable(S.curActiveEditable).target] =
          setEditableNumber(Editable(S.curActiveEditable).size, @, v)]

\* getEditableNumber(field) on the edited Field, default branch included
loadNumber(S) ==
  IF ~Ok(S) THEN S
  ELSE IF ~WidthOk(Editable(S.curActiveEditable).size) THEN Fail(S, "assert(0) editable size")
  ELSE Return(S, getEditableNumber(Editable(S.curActiveEditable).size,
                                   S.cell[Editable(S.curActiveEditable).target]))

\* setEditableNumber(f, v) followed by getEditableNumber(f)
RoundTrip(v) ==
  /\ fault = "none" /\ op = Idle
  /\ curActiveEditable # NULL
  /\ Install(loadNumber(storeNumber(Cur, v)))
  /\ op' = [name |-> "roundTrip", v |-> v, read |-> loadNumber(storeNumber(Cur, v)).rv,
             before |-> cell[Editable(curActiveEditable).target]]
  /\ ret' = NoRet

StoreAndLoad == \E v \in CellRange(probeCfg.size) : RoundTrip(v)

\* "probe" is a number of any of the widths, its cell zeroed
InitCells ==
  /\ field = [f \in Fields |-> InitField(f)]
  /\ probeCfg \in {ProbeNumber(size, 0, 0, 0) : size \in CellWidths}
  /\ cell = [c \in Cells |-> InitCell(c)]
  /\ lay = [a \in LayoutArrays |->
              IF a = "rows" THEN [i \in 1..(MAX_SCROLLABLE_ROWS + 1) |-> ZeroLayout]
              ELSE ScreenDef(a).fields]
  /\ scrollableStack = [i \in 0..(MAX_SCROLLABLE_DEPTH - 1) |-> NULL]
  /\ scrollableStackPtr = 0
  /\ curActiveEditable = "probe"
  /\ forceScrollableRelayout = FALSE
  /\ blinkChanged = FALSE
  /\ blinkOn = FALSE
  /\ blinkCounter = 0
  /\ oldForceLabels = FALSE
  /\ forceLabels = FALSE
  /\ curScreen = NULL
  /\ screenDirty = FALSE
  /\ fault = "none"
  /\ linked = {}
  /\ linkAdjacent = FALSE
  /\ op = Idle
  /\ ret = NoRet
  /\ log = <<>>

NextCells == StoreAndLoad \/ Returned

SpecCells == InitCells /\ [][NextCells]_vars

\* ============================================================ properties
NumEntries(s) == Len(Entries(s)) - 1

\* the scrollables on the navigation stack
Stacked == {scrollableStack[k] : k \in 0..(scrollableStackPtr - 1)}

\* the fields a render pass of the current screen answers for: those its layouts
\* name and every entry, End included, of the scrollables on the stack
PassFields ==
  ({lay[curScreen][i].field : i \in DOMAIN lay[curScreen]} \ {NULL})
  \cup UNION {{Entries(s)[j] : j \in DOMAIN Entries(s)} : s \in Stacked}

RenderPassCompleted ==
  /\ op.name \in {"screenUpdate", "screenShow"}
  /\ fault = "none"
  /\ curScreen # NULL

\* C1: after every completed render pass, every field named by the current
\* screen's layouts and every entry (End sentinel included) of every scrollable
\* on the navigation stack has dirty = FALSE.
C1_CleanAfterPass ==
  RenderPassCompleted => \A f \in PassFields : ~field[f].dirty

\* C2: every scrollable with at least one entry keeps 0 <= selected <= n - 1 and
\* first <= selected <= first + (MAX_SCROLLABLE_ROWS - 2), whatever UP and DOWN
\* clicks it has received since first = 0, selected = 0.
C2_SelectedInWindow ==
  \A s \in MenuFields :
    NumEntries(s) >= 1 =>
      /\ 0 <= field[s].selected /\ field[s].selected <= NumEntries(s) - 1
      /\ field[s].first <= field[s].selected
      /\ field[s].selected <= field[s].first + (MAX_SCROLLABLE_ROWS - 2)

\* C2 witness: a DOWN click has just moved the selection of the six entry menu
\* to the last row of a window that has scrolled.
C2_ScrolledToBottom ==
  /\ op.name = "screenOnPress" /\ "DOWN_CLICK" \in op.events
  /\ scrollableStackPtr = 1 /\ scrollableStack[0] = "listMenu"
  /\ field["listMenu"].first > 0
  /\ field["listMenu"].selected = field["listMenu"].first + (MAX_SCROLLABLE_ROWS - 2)
  /\ field["listMenu"].selected = NumEntries("listMenu") - 1

\* the entry the top scrollable's selected index designates is one of its own
\* entries and not its End sentinel
TopSelectsRealEntry ==
  LET s == scrollableStack[scrollableStackPtr - 1]
  IN /\ 0 <= field[s].selected /\ field[s].selected < NumEntries(s)
     /\ InitVariant(Entries(s)[field[s].selected + 1]) # "FieldEnd"

\* C3 as stated: whenever the navigation stack is non-empty the top scrollable's
\* selected index designates a real entry, even for a menu that holds only End.
C3_AlwaysRealEntry ==
  (fault = "none" /\ scrollableStackPtr > 0) => TopSelectsRealEntry

\* C3 amended: whenever the navigation stack is non-empty and the top scrollable
\* has at least one entry, its selected index designates a real entry.
C3_RealEntryWhenNonEmpty ==
  (scrollableStackPtr \in 1..MAX_SCROLLABLE_DEPTH
     /\ NumEntries(scrollableStack[scrollableStackPtr - 1]) >= 1)
  => TopSelectsRealEntry

\* C3 witness: a DOWN click in the two entry menu has moved the selection to
\* its last entry.
C3_LastEntrySelected ==
  /\ op.name = "screenOnPress" /\ "DOWN_CLICK" \in op.events
  /\ scrollableStackPtr = 1 /\ scrollableStack[0] = "topMenu"
  /\ field["topMenu"].selected = NumEntries("topMenu") - 1

\* the chain of menus entered one inside the other down to the full depth
FullStack == (0 :> "topMenu") @@ (1 :> "wheelMenu") @@ (2 :> "level2Menu")

EnterAssertion == "assert(scrollableStackPtr < MAX_SCROLLABLE_DEPTH)"

\* S is the state at enterScrollable's assertion, the stack as it is now
StoppedUnchanged(S) ==
  /\ S.fault = EnterAssertion
  /\ S.scrollableStack = scrollableStack
  /\ S.scrollableStackPtr = scrollableStackPtr

\* C4: scrollableStackPtr stays in 0..MAX_SCROLLABLE_DEPTH; a select click on a
\* submenu at depth MAX_SCROLLABLE_DEPTH stops at enterScrollable's assertion
\* and leaves the stack and its depth as they were.
C4_DepthBounded ==
  /\ scrollableStackPtr \in 0..MAX_SCROLLABLE_DEPTH
  /\ (op = Idle /\ fault = "none" /\ scrollableStackPtr = MAX_SCROLLABLE_DEPTH
        /\ curActiveEditable = NULL)
     => \A events \in Events :
          LET s == scrollableStack[scrollableStackPtr - 1]
              clicked == Entries(s)[field[s].selected + 1]
          IN ("M_CLICK" \in events /\ "UP_CLICK" \notin events /\ "DOWN_CLICK" \notin events
                /\ InitVariant(clicked) = "FieldScrollable")
             => StoppedUnchanged(screenOnPress(Cur, events, FALSE))
  /\ fault = EnterAssertion
     => /\ scrollableStackPtr = MAX_SCROLLABLE_DEPTH
        /\ scrollableStack = FullStack

\* C4 witness: the select click on level3Menu, three menus deep, has stopped
\* the firmware at the assertion.
C4_StoppedAtDepth ==
  /\ op.name = "screenOnPress" /\ op.events = {"M_CLICK"} /\ op.depth = MAX_SCROLLABLE_DEPTH
  /\ fault = EnterAssertion
  /\ scrollableStackPtr = MAX_SCROLLABLE_DEPTH
  /\ scrollableStack = FullStack

\* the editable a changeEditable call has just stepped, and its step
Stepped == Editable(curActiveEditable)

StepOf(e) == IF e.inc_step = 0 THEN 1 ELSE e.inc_step

ChangedUInt(increment) ==
  /\ op.name = "changeEditable" /\ op.increment = increment
  /\ fault = "none"
  /\ Stepped.typ = "EditUInt"
  /\ Stepped.min_value <= op.before /\ op.before <= Stepped.max_value

\* C5: incrementing an unsigned editable whose value v lies in
\* [min_value, max_value] stores v + s when v + s <= max_value and min_value
\* otherwise, s being inc_step, or 1 when inc_step is 0.
C5_IncrementWraps ==
  ChangedUInt(TRUE) =>
    cell[Stepped.target] =
      IF op.before + StepOf(Stepped) <= Stepped.max_value
      THEN op.before + StepOf(Stepped) ELSE Stepped.min_value

\* C6: decrementing an unsigned editable whose value v lies in
\* [min_value, max_value] stores v - s when v - s >= min_value and max_value
\* otherwise, for every min_value, 0 included.
C6_DecrementWraps ==
  ChangedUInt(FALSE) =>
    cell[Stepped.target] =
      IF op.before - StepOf(Stepped) >= Stepped.min_value
      THEN op.before - StepOf(Stepped) ELSE Stepped.max_value

\* C7: stepping an enum editable with count options from index i stores
\* (i + 1) mod count on increment and (i - 1) mod count on decrement.
C7_EnumCycles ==
  (op.name = "changeEditable" /\ fault = "none" /\ Stepped.typ = "EditEnum"
     /\ op.before \in 0..(countEnumOptions(Stepped) - 1))
  => cell[Stepped.target] =
       (op.before + (IF op.increment THEN 1 ELSE -1)) % countEnumOptions(Stepped)

\* C7 witness: a three option enum has been stepped up from its last option
\* and now shows its first one.
C7_WrappedToFirst ==
  /\ op.name = "changeEditable" /\ op.increment
  /\ Stepped.typ = "EditEnum" /\ countEnumOptions(Stepped) = MaxOptions
  /\ op.before = MaxOptions - 1
  /\ cell[Stepped.target] = 0

\* what vsnprintf leaves in a msg buffer of MAX_FIELD_LEN bytes
Truncated(str) == IF Len(str) <= MAX_FIELD_LEN - 1 THEN str ELSE SubSeq(str, 1, MAX_FIELD_LEN - 1)

\* C8: fieldPrintf leaves the truncated formatted string in the field and sets
\* dirty exactly when that string differs from the text held before; a call
\* with the same string on a clean field leaves it clean.
C8_DirtyIffChanged ==
  op.name = "fieldPrintf" =>
    /\ field[op.f].msg = Truncated(op.str)
    /\ field[op.f].dirty = (op.wasDirty \/ Truncated(op.str) # op.oldMsg)

\* C8 witness: a string longer than the buffer has been formatted a second time
\* after a render pass cleared the flag, and the field is still clean.
C8_SameTextStaysClean ==
  /\ op.name = "fieldPrintf"
  /\ Len(op.str) > MAX_FIELD_LEN - 1
  /\ ~op.wasDirty /\ Truncated(op.str) = op.oldMsg
  /\ ~field[op.f].dirty

HasHandler == curScreen # NULL /\ ScreenDef(curScreen).onPress

NextLayer(layer) == IF layer = "editable" THEN "scrollable" ELSE "screen"

\* C9: screenOnPress consults the editable layer (when an editable is active),
\* then the scrollable layer, then the screen's own handler, each only when
\* every earlier one declined, and returns TRUE iff some layer handled.
C9_DispatchOrder ==
  (op.name = "screenOnPress" /\ fault = "none") =>
    LET c == ret.called
        n == Len(c)
    IN /\ n >= 1
       /\ c[1][1] = (IF op.editing # NULL THEN "editable" ELSE "scrollable")
       /\ \A i \in 1..(n - 1) : ~c[i][2] /\ c[i + 1][1] = NextLayer(c[i][1])
       /\ \/ c[n][2]
          \/ c[n][1] = "screen"
          \/ c[n][1] = "scrollable" /\ ~HasHandler
       /\ ret.handled = (\E i \in 1..n : c[i][2])

\* C9 witness: the active editable declined a select click and the scrollable
\* layer, consulted next, handled it.
C9_EditableThenScrollable ==
  /\ op.name = "screenOnPress" /\ op.editing # NULL
  /\ ret.called = << <<"editable", FALSE>>, <<"scrollable", TRUE>> >>
  /\ ret.handled

\* C10: at depth 1 with no editable active, a press carrying the ON/OFF click
\* (and no select click) empties the navigation stack and the scrollable layer
\* reports it unhandled, so the screen's handler is consulted next and its
\* answer is the result.
C10_ExitAtRoot ==
  (op.name = "screenOnPress" /\ fault = "none"
     /\ "ONOFF_CLICK" \in op.events /\ "M_CLICK" \notin op.events
     /\ op.depth = 1 /\ op.editing = NULL)
  => /\ scrollableStackPtr = 0
     /\ ret.called[1] = <<"scrollable", FALSE>>
     /\ IF HasHandler
        THEN Len(ret.called) = 2 /\ ret.called[2][1] = "screen"
             /\ ret.handled = ret.called[2][2]
        ELSE Len(ret.called) = 1 /\ ~ret.handled

\* C10 witness: the ON/OFF click at the root menu emptied the stack and went
\* on to the screen's handler, which took it.
C10_ExitReachedHandler ==
  /\ op.name = "screenOnPress" /\ op.events = {"ONOFF_CLICK"}
  /\ op.depth = 1 /\ op.editing = NULL
  /\ scrollableStackPtr = 0
  /\ ret.called = << <<"scrollable", FALSE>>, <<"screen", TRUE>> >>

\* the press the scrollable layer has just answered, and its answer
ScrollableConsulted == \E i \in DOMAIN ret.called : ret.called[i][1] = "scrollable"

ScrollableAnswer ==
  ret.called[CHOOSE i \in DOMAIN ret.called : ret.called[i][1] = "scrollable"][2]

ExitReachedScrollable ==
  /\ op.name = "screenOnPress" /\ fault = "none"
  /\ "ONOFF_CLICK" \in op.events
  /\ ScrollableConsulted

\* C11 as stated: an exit press that reaches the scrollable layer is reported
\* unhandled only when the navigation stack was empty before the press, and
\* handled whenever the stack was non-empty before it.
C11_UnhandledOnlyWhenEmpty ==
  ExitReachedScrollable => (ScrollableAnswer = (op.depth > 0))

\* C11 amended: an exit press that reaches the scrollable layer is reported
\* handled exactly when a scrollable is still on the navigation stack after
\* the press; it is unhandled when the stack was empty or the press popped
\* its last level.
C11_UnhandledWhenEmptied ==
  ExitReachedScrollable => (ScrollableAnswer = (scrollableStackPtr > 0))

\* C11 witness: the exit press two menus deep popped one level, the parent is
\* still on the stack and the scrollable layer reported the press handled.
C11_PoppedToParent ==
  /\ op.name = "screenOnPress" /\ op.events = {"ONOFF_CLICK"} /\ op.depth = 2
  /\ fault = "none"
  /\ scrollableStackPtr = 1
  /\ ret.called = << <<"scrollable", TRUE>> >>

\* the active scrollable and the entry its selected index designates
Top == getActiveScrollable(Cur)

Clicked == EntryAt(Cur, Top, field[Top].selected)

\* this step is a call of screenOnPress with exactly these clicks that ran to its end
PressStep(events) ==
  /\ op = Idle /\ op'.name = "screenOnPress" /\ op'.events = events
  /\ fault' = "none"

\* C12: a select press while the selected entry of the active scrollable is a
\* Scrollable, the depth is below MAX_SCROLLABLE_DEPTH and no editable is
\* active, raises the depth by one, puts that child on top of the stack, sets
\* the child's blink flag, marks the stack bottom dirty and is reported handled.
C12_SelectEntersChild ==
  [][ (/\ PressStep({"M_CLICK"})
       /\ curActiveEditable = NULL
       /\ scrollableStackPtr \in 1..(MAX_SCROLLABLE_DEPTH - 1)
       /\ field[Clicked].variant = "FieldScrollable")
      => /\ scrollableStackPtr' = scrollableStackPtr + 1
         /\ scrollableStack'[scrollableStackPtr' - 1] = Clicked
         /\ \A k \in 0..(scrollableStackPtr - 1) : scrollableStack'[k] = scrollableStack[k]
         /\ field'[Clicked].blink
         /\ field'[scrollableStack'[0]].dirty
         /\ ret'.handled
         /\ ret'.called = << <<"scrollable", TRUE>> >> ]_vars

\* C12 witness: the select press on wheelMenu, a row of the root menu, has
\* pushed it: the depth went from one to two and its blink flag is set.
C12_ChildOnTop ==
  /\ op.name = "screenOnPress" /\ op.events = {"M_CLICK"}
  /\ op.depth = 1 /\ op.editing = NULL
  /\ fault = "none"
  /\ scrollableStackPtr = 2 /\ scrollableStack[1] = "wheelMenu"
  /\ field["wheelMenu"].blink /\ field["topMenu"].dirty
  /\ ret.handled

\* the active editable is not a read-only field
ActiveIsWritable == curActiveEditable # NULL => ~Editable(curActiveEditable).read_only

\* a select press on an editable that is not read-only starts editing it
StartsEditing ==
  /\ curActiveEditable' = Clicked
  /\ field'[Clicked].dirty
  /\ ScrollableAnswer'
  /\ ret'.handled

\* a select press the scrollable layer has no use for: nothing changes and the
\* layer does not claim it
SelectIgnored ==
  /\ UNCHANGED prog
  /\ ~ScrollableAnswer'

\* C13: a select press on a selected Editable entry makes it the active
\* editable and marks it dirty iff it is not read-only; on a read-only editable
\* or a Text, Fill, Mesh or End entry it changes no state and the scrollable
\* layer does not claim it; the active editable is never a read-only field.
C13_OnlyWritableEdited ==
  /\ []ActiveIsWritable
  /\ [][ (PressStep({"M_CLICK"}) /\ scrollableStackPtr >= 1)
         => CASE field[Clicked].variant = "FieldEditable" ->
                   IF Editable(Clicked).read_only THEN SelectIgnored ELSE StartsEditing
              [] field[Clicked].variant = "FieldScrollable" -> TRUE
              [] OTHER -> SelectIgnored ]_vars

\* C13 witness: the select press on trip, which is not read-only, has made it
\* the active editable and marked it dirty.
C13_EditingStarted ==
  /\ op.name = "screenOnPress" /\ op.events = {"M_CLICK"} /\ op.editing = NULL
  /\ fault = "none"
  /\ curActiveEditable = "trip" /\ field["trip"].dirty
  /\ ret.called = << <<"scrollable", TRUE>> >>

\* this step is a call of screenOnPress that ran to its end
AnyPressStep == op = Idle /\ op'.name = "screenOnPress" /\ fault' = "none"

\* the navigation stack, depth and contents, is as it was
StackUnchanged ==
  /\ scrollableStackPtr' = scrollableStackPtr
  /\ \A k \in 0..(scrollableStackPtr - 1) : scrollableStack'[k] = scrollableStack[k]

\* no scrollable's selected or first has moved
ScrollUnchanged ==
  \A s \in MenuFields :
    field'[s].selected = field[s].selected /\ field'[s].first = field[s].first

\* C14: while an editable is active, a press that carries an UP or a DOWN click
\* is claimed by the editable layer and by no other: screenOnPress returns
\* TRUE, only the editable layer is consulted, and selected, first and the
\* depth of the navigation stack are unchanged.
C14_EditableClaimsUpDown ==
  [][ (/\ AnyPressStep
       /\ curActiveEditable # NULL
       /\ op'.events \cap {"UP_CLICK", "DOWN_CLICK"} # {})
      => /\ ret'.handled
         /\ ret'.called = << <<"editable", TRUE>> >>
         /\ ScrollUnchanged
         /\ StackUnchanged ]_vars

\* C14 witness: a DOWN click arrived while an editable was active and only the
\* editable layer was consulted.
C14_DownWhileEditing ==
  /\ op.name = "screenOnPress" /\ op.events = {"DOWN_CLICK"}
  /\ op.editing # NULL /\ op.depth = 1
  /\ fault = "none"
  /\ curActiveEditable = op.editing
  /\ ret.called = << <<"editable", TRUE>> >>

\* C15: while an editable is active, a press that carries the ON/OFF click
\* clears the active editable, marks the edited field and the root scrollable
\* dirty, is reported handled and leaves the navigation stack unchanged.
C15_ExitLeavesEditor ==
  [][ (/\ AnyPressStep
       /\ curActiveEditable # NULL
       /\ "ONOFF_CLICK" \in op'.events)
      => /\ curActiveEditable' = NULL
         /\ field'[curActiveEditable].dirty
         /\ field'[scrollableStack[0]].dirty
         /\ ret'.handled
         /\ ret'.called = << <<"editable", TRUE>> >>
         /\ StackUnchanged ]_vars

\* C15 witness: the ON/OFF click arrived while an editable was edited one menu
\* deep; editing has ended and the menu is still on the stack.
C15_EditorLeft ==
  /\ op.name = "screenOnPress" /\ op.events = {"ONOFF_CLICK"}
  /\ op.editing # NULL /\ op.depth = 1
  /\ fault = "none"
  /\ curActiveEditable = NULL
  /\ scrollableStackPtr = 1
  /\ field[op.editing].dirty /\ field[scrollableStack[0]].dirty
  /\ ret.called = << <<"editable", TRUE>> >>

\* the Field of the scrollable layout of screen s, NULL if it has none
RootOf(s) ==
  IF \E i \in DOMAIN ScreenDef(s).fields : ScreenDef(s).fields[i].field \in MenuFields
  THEN ScreenDef(s).fields[CHOOSE i \in DOMAIN ScreenDef(s).fields :
                             ScreenDef(s).fields[i].field \in MenuFields].field
  ELSE NULL

\* C16: after screenShow(s) returns, s is the current screen, no editable is
\* active, screenDirty is FALSE, and the navigation stack has depth 1 with s's
\* own scrollable at the bottom if s has a scrollable layout and depth 0
\* otherwise, whatever was edited or entered before the call.
C16_ShowResets ==
  (op.name = "screenShow" /\ fault = "none") =>
    /\ curScreen = op.screen
    /\ curActiveEditable = NULL
    /\ ~screenDirty
    /\ IF RootOf(op.screen) # NULL
       THEN scrollableStackPtr = 1 /\ scrollableStack[0] = RootOf(op.screen)
       ELSE scrollableStackPtr = 0

\* C16 witness: the screen without a menu was shown while an editable of
\* setupScreen's menu was being edited; the stack is empty and nothing is edited.
C16_LeftMenuForMain ==
  /\ op.name = "screenShow" /\ op.screen = "mainScreen"
  /\ fault = "none"
  /\ log[1][1] = "onExit" /\ log[1][2] = "setupScreen"
  /\ log[1][3] # NULL /\ log[1][4] = 1
  /\ curScreen = "mainScreen" /\ curActiveEditable = NULL
  /\ scrollableStackPtr = 0 /\ ~screenDirty

\* the positions of the exit callback in the log of the last call
ExitCalls == {i \in DOMAIN log : log[i][1] = "onExit"}

\* C17: screenShow calls the outgoing screen's exit callback exactly once when
\* a current screen with a callback exists, before the active editable and the
\* navigation stack are reset, before the new screen becomes current and
\* before anything is rendered; with no current screen it calls none.
C17_ExitCalledFirst ==
  [][ (op = Idle /\ op'.name = "screenShow")
      => IF curScreen # NULL /\ ScreenDef(curScreen).onExit
         THEN /\ ExitCalls' = {1}
              /\ log'[1][2] = curScreen
              /\ log'[1][3] = curActiveEditable
              /\ log'[1][4] = scrollableStackPtr
         ELSE ExitCalls' = {} ]_vars

\* C17 witness: setupScreen's exit callback ran once, first, while its editable
\* was still active and its menu still on the stack; mainScreen was then drawn.
C17_ExitBeforeReset ==
  /\ op.name = "screenShow" /\ op.screen = "mainScreen"
  /\ ExitCalls = {1}
  /\ log[1][2] = "setupScreen" /\ log[1][3] = "assist" /\ log[1][4] = 1
  /\ Len(log) > 1 /\ log[2][1] = "UG_FillScreen"
  /\ curScreen = "mainScreen" /\ curActiveEditable = NULL /\ scrollableStackPtr = 0

\* C18: screenUpdate() while no screen is current changes nothing: the blink
\* counter, blinkOn, blinkChanged, every Field, the navigation stack and the
\* active editable are as before and nothing is sent to the display.
C18_UpdateWithoutScreen ==
  [][ (op = Idle /\ op'.name = "screenUpdate" /\ curScreen = NULL)
      => UNCHANGED prog /\ log' = <<>> ]_vars

\* C18 witness: screenUpdate() ran with no current screen, after a screen had
\* been shown and hidden, while a Field was dirty and the blink counter was
\* between two toggles.
C18_UpdatedWhileHidden ==
  /\ op.name = "screenUpdate"
  /\ curScreen = NULL
  /\ field["socField"].dirty /\ blinkCounter # 0 /\ screenDirty
  /\ log = <<>>

\* what the last call sent to the display
Flushed == \E i \in DOMAIN log : log[i][1] = "lcd_refresh"

Drew == \E i \in DOMAIN log : log[i][1] = "drew"

\* this step is a screenUpdate() over a current screen that ran to its end
UpdateStep ==
  /\ op = Idle /\ op'.name = "screenUpdate"
  /\ curScreen # NULL
  /\ fault' = "none"

\* before the pass no Field and not the screen is dirty and every editable
\* layout of the screen has cached the stored value; the pass toggles no blink
NothingPending ==
  /\ ~screenDirty
  /\ \A f \in Fields : ~field[f].dirty
  /\ ~blinkChanged'
  /\ \A i \in DOMAIN lay[curScreen] :
       lay[curScreen][i].field \in EditFields
       => lay[curScreen][i].old_editable = editableNumber(Cur, curScreen, i)

LastVisible(first) == first + (MAX_SCROLLABLE_ROWS - 1) - 1

\* this step is a DOWN click delivered to the active scrollable
DownStep ==
  /\ PressStep({"DOWN_CLICK"})
  /\ curActiveEditable = NULL
  /\ scrollableStackPtr >= 1
  /\ NumEntries(Top) >= 1

\* C20: a DOWN click on the active scrollable with n >= 1 entries increments
\* selected, clamped at n - 1 without wraparound, and sets first = selected - 2
\* when selected passes the last visible data row; so after k DOWN clicks from
\* first = 0, selected = 0, selected = min(k, n - 1) and
\* first = max(0, selected - 2).
C20_DownScrolls ==
  /\ [](\A s \in MenuFields :
          NumEntries(s) >= 1 =>
            /\ field[s].selected <= NumEntries(s) - 1
            /\ field[s].first = IF field[s].selected - 2 > 0 THEN field[s].selected - 2 ELSE 0)
  /\ [][ DownStep
         => /\ field'[Top].selected = Min(field[Top].selected + 1, NumEntries(Top) - 1)
            /\ field'[Top].first =
                 IF field'[Top].selected > LastVisible(field[Top].first)
                 THEN field'[Top].selected - 2 ELSE field[Top].first
            /\ ret'.called = << <<"scrollable", TRUE>> >> ]_vars

\* C20 witness: the third DOWN click in the six entry menu: selected = 3 is the
\* last visible row of a window that has moved to first = 1.
C20_ThreeDowns ==
  /\ op.name = "screenOnPress" /\ op.events = {"DOWN_CLICK"}
  /\ fault = "none"
  /\ scrollableStackPtr = 1 /\ scrollableStack[0] = "listMenu"
  /\ NumEntries("listMenu") = 6
  /\ field["listMenu"].selected = 3 /\ field["listMenu"].first = 1

\* this step is an UP click delivered to the active scrollable
UpStep ==
  /\ PressStep({"UP_CLICK"})
  /\ curActiveEditable = NULL
  /\ scrollableStackPtr >= 1

\* C21: an UP click on the active scrollable decrements selected, clamped at 0
\* without wraparound, and sets first = selected exactly when the new selected
\* is above first; at selected = 0 it leaves selected and first unchanged and
\* is still reported handled.
C21_UpScrolls ==
  [][ UpStep
      => /\ field'[Top].selected =
              IF field[Top].selected >= 1 THEN field[Top].selected - 1 ELSE 0
         /\ field'[Top].first =
              IF field'[Top].selected < field[Top].first
              THEN field'[Top].selected ELSE field[Top].first
         /\ (field[Top].selected = 0
               => field'[Top].selected = 0 /\ field'[Top].first = field[Top].first)
         /\ ret'.handled
         /\ ret'.called = << <<"scrollable", TRUE>> >> ]_vars

\* C21 witness: an UP click in the six entry menu has moved the selection
\* above a window that had scrolled down, and the window followed it: the rows
\* last drawn still start at item3, which was the selected one.
C21_WindowFollowedUp ==
  /\ op.name = "screenOnPress" /\ op.events = {"UP_CLICK"}
  /\ fault = "none"
  /\ scrollableStackPtr = 1 /\ scrollableStack[0] = "listMenu"
  /\ lay["rows"][2].field = "item3" /\ field["item3"].is_selected
  /\ field["listMenu"].selected = 2 /\ field["listMenu"].first = 2
  /\ ret.handled

\* C22: a storage cell changes only in a screenUpdate() pass in which the blink
\* state toggled, the cell's field is the active editable and not read-only,
\* and the up or the down button is held; screenOnPress changes no cell and no
\* cell of a non-active or read-only editable ever changes.
C22_CellsWrittenOnBlinkOnly ==
  [][ (cell' # cell)
      => /\ op = Idle /\ op'.name = "screenUpdate"
         /\ blinkChanged'
         /\ curActiveEditable # NULL
         /\ ~Editable(curActiveEditable).read_only
         /\ op'.up \/ op'.down
         /\ \A c \in Cells :
              c # Editable(curActiveEditable).target => cell'[c] = cell[c] ]_vars

\* C22 witness: a pass on a blink toggle with the up button held has stepped
\* the cell of the active editable assist from 0 to 1.
C22_SteppedOnBlink ==
  /\ op.name = "screenUpdate" /\ op.up /\ ~op.down
  /\ fault = "none"
  /\ blinkChanged
  /\ curActiveEditable = "assist"
  /\ \E i \in DOMAIN log : log[i][1] = "change" /\ log[i][2] = "assist"
  /\ cell["ui8_assist"] = 1 /\ cell["ui8_units"] = 0

\* the steps changeEditable made in the last pass, upwards or downwards
Changes(increment) ==
  {i \in DOMAIN log : log[i][1] = "change" /\ log[i][3] = increment}

\* this step is a screenUpdate() while a writable editable is edited inside the
\* expanded scrollable, with exactly the up button held (up) or exactly the
\* down button held (~up)
HeldStep(up) ==
  /\ UpdateStep
  /\ curActiveEditable # NULL
  /\ ~Editable(curActiveEditable).read_only
  /\ scrollableStackPtr >= 1 /\ Clicked = curActiveEditable
  /\ op'.up = up /\ op'.down = ~up

\* the cell of the active editable has made one step of changeEditable
OneStep(up) ==
  /\ Cardinality(Changes(up)') = 1 /\ Changes(~up)' = {}
  /\ cell'[Editable(curActiveEditable).target] =
       changeCell(Editable(curActiveEditable), cell[Editable(curActiveEditable).target], up)

\* C23: while an editable is active inside the expanded scrollable and only
\* the up (only the down) button is held, a pass that toggles the blink state
\* applies exactly one increment (decrement) step to the stored value, and a
\* pass between two toggles applies none.  (Holds when the edited Field has
\* one layout; the sampling is made by every layout that shows the Field.)
C23_OneStepPerToggle ==
  [][ \A up \in BOOLEAN :
        HeldStep(up)
        => IF blinkChanged' THEN OneStep(up)
           ELSE cell' = cell /\ Changes(TRUE)' = {} /\ Changes(FALSE)' = {} ]_vars

\* this step runs the body of screenUpdate() with a current screen: a call of
\* screenUpdate() while a screen is shown, or the call screenShow(s) makes for
\* a screen s
TickStep ==
  /\ op = Idle
  /\ \/ op'.name = "screenUpdate" /\ curScreen # NULL
     \/ op'.name = "screenShow" /\ op'.screen # NULL

\* C24: the blink toggle has a period of 10 calls of screenUpdate() with a
\* current screen, the call inside screenShow included: each such call
\* advances a counter modulo 10, blinkChanged is true exactly when the counter
\* wraps to 0 and blinkOn flips exactly then; no other step moves the counter
\* or blinkOn.
C24_BlinkPeriod ==
  /\ [](blinkCounter \in 0 .. BlinkPeriod - 1)
  /\ [][ IF TickStep
         THEN /\ blinkCounter' = (blinkCounter + 1) % BlinkPeriod
              /\ blinkChanged' = (blinkCounter = BlinkPeriod - 1)
              /\ blinkOn' = (IF blinkChanged' THEN ~blinkOn ELSE blinkOn)
         ELSE /\ blinkCounter' = blinkCounter
              /\ blinkOn' = blinkOn
              /\ blinkChanged' = blinkChanged ]_vars

\* C24 witness: the forced render of screenShow(setupScreen) was the tenth
\* call and toggled the blink state.
C24_ShowToggled ==
  /\ op.name = "screenShow" /\ op.screen = "setupScreen"
  /\ fault = "none"
  /\ blinkCounter = 0 /\ blinkChanged /\ blinkOn

\* log entry k is the visit of a layout whose Field needsRender accepts
Needed(k) ==
  \/ log[k][5]
  \/ log[k][6] /\ blinkChanged
  \/ field[log[k][4]].variant = "FieldEditable"

\* the layout visited at log entry k was handed to its renderer
Dispatched(k) ==
  /\ k + 1 \in DOMAIN log
  /\ log[k + 1][1] = "dispatch"
  /\ log[k + 1][2] = log[k][2] /\ log[k + 1][3] = log[k][3]

\* the pass stopped at an assertion on the geometry of the layout visited last
StoppedAt(k) == fault # "none" /\ k = Len(log)

\* layout i of the current screen was handed to its renderer in the last pass
TopDispatched(i) ==
  \E k \in DOMAIN log : log[k][1] = "dispatch" /\ log[k][2] = curScreen /\ log[k][3] = i

\* layout i of the current screen was drawn in the last pass
TopDrew(i) ==
  \E k \in DOMAIN log : log[k][1] = "drew" /\ log[k][2] = curScreen /\ log[k][3] = i

\* the layouts of the current screen, without the terminator
TopLayouts == {i \in DOMAIN lay[curScreen] : lay[curScreen][i].field # NULL}

\* before the pass, layout i of the current screen names a Field that is
\* dirty (or the screen is), or blinks while the pass toggles, or is Editable
TopNeeded(i) ==
  \/ screenDirty \/ field[lay[curScreen][i].field].dirty
  \/ field[lay[curScreen][i].field].blink /\ blinkChanged'
  \/ field[lay[curScreen][i].field].variant = "FieldEditable"

\* C25: in a render pass a layout, of the screen or a row, is dispatched to
\* its renderer if and only if its Field is dirty, or has blink set while the
\* blink state toggled on this tick, or is an Editable; a layout of the screen
\* whose Field is clean, not Editable and not due to blink is not dispatched,
\* not drawn and keeps its geometry.
C25_DispatchedIffNeeded ==
  /\ [](\A k \in DOMAIN log :
          /\ log[k][1] = "visit" => (Dispatched(k) <=> Needed(k) /\ ~StoppedAt(k))
          /\ log[k][1] = "dispatch" => k > 1 /\ log[k - 1][1] = "visit" /\ Dispatched(k - 1))
  /\ [][ UpdateStep
         => \A i \in TopLayouts :
              /\ TopDispatched(i)' <=> TopNeeded(i)
              /\ ~TopNeeded(i) => ~TopDrew(i)' /\ lay'[curScreen][i] = lay[curScreen][i] ]_vars

\* C25 witness: in a pass over the main screen without a blink toggle the
\* clean text layouts 1 and 3 and the clean bar were skipped, while the
\* Editable layout 4 was dispatched although its Field was clean.
C25_OnlyEditableDispatched ==
  /\ op.name = "screenUpdate" /\ curScreen = "mainScreen"
  /\ fault = "none" /\ ~blinkChanged
  /\ \E k \in DOMAIN log : log[k][1] = "visit" /\ log[k][3] = 1 /\ ~log[k][5] /\ ~Dispatched(k)
  /\ \E k \in DOMAIN log : log[k][1] = "visit" /\ log[k][3] = 4 /\ ~log[k][5] /\ Dispatched(k)
  /\ ~TopDispatched(1) /\ ~TopDispatched(2) /\ ~TopDispatched(3) /\ TopDispatched(4)

\* the rows of rows[] that name Field f
RowRefs(f) == {i \in 1 .. MAX_SCROLLABLE_ROWS : lay["rows"][i].field = f}

\* the layouts of the current screen that name Field f
TopRefs(f) == {i \in TopLayouts : lay[curScreen][i].field = f}

\* row i of rows[] was drawn in the last pass
RowDrew(i) ==
  \E k \in DOMAIN log : log[k][1] = "drew" /\ log[k][2] = "rows" /\ log[k][3] = i

\* in the last pass no draw of a layout of Field f came after a clearing of f
ClearedLast(f) ==
  \A j, k \in DOMAIN log :
    log[j][1] = "drew" /\ log[k][1] = "clear" => (log[j][4] = f /\ log[k][4] = f => j < k)

\* C26: a Field that is dirty at the start of a render pass and is named by
\* two or more layouts, of the screen or rows of the expanded scrollable, is
\* drawn by every one of them in that pass, and its dirty flag is cleared only
\* after the last of these draws.
C26_SharedDrawnThenCleared ==
  [][ UpdateStep
      => \A f \in Fields :
           field[f].dirty /\ Cardinality(TopRefs(f)) + Cardinality(RowRefs(f)') >= 2
           => /\ \A i \in TopRefs(f) : TopDrew(i)'
              /\ \A i \in RowRefs(f)' : RowDrew(i)'
              /\ ClearedLast(f)' ]_vars

\* the entries of the last operation's log with this tag
Tagged(tag) == {k \in DOMAIN log : log[k][1] = tag}

\* the visits of layout i of the current screen in the last pass
TopVisits(i) ==
  {k \in DOMAIN log : log[k][1] = "visit" /\ log[k][2] = curScreen /\ log[k][3] = i}

\* C27: screenShow(s) for a screen s, once it has returned, has made exactly
\* one forced render pass: the display was cleared once, every layout of s
\* was visited once with its Field dirty and dispatched to its renderer, one
\* hardware flush was made, and the screen is no longer marked for a full
\* redraw, so no later screenUpdate() clears the display.
C27_ShowRendersOnce ==
  /\ [](op.name = "screenShow" /\ fault = "none"
        => /\ curScreen = op.screen /\ ~screenDirty
           /\ Cardinality(Tagged("UG_FillScreen")) = 1
           /\ Cardinality(Tagged("lcd_refresh")) = 1
           /\ \A i \in TopLayouts :
                /\ Cardinality(TopVisits(i)) = 1
                /\ \A k \in TopVisits(i) : log[k][5] /\ Dispatched(k))
  /\ [](op.name = "screenUpdate" => Tagged("UG_FillScreen") = {})
  /\ [][UpdateStep => ~screenDirty]_vars

\* C27 witness: screenShow(mainScreen), called while the setup menu was shown,
\* has cleared the display, dispatched the four layouts of the main screen and
\* flushed.
C27_MainShown ==
  /\ op.name = "screenShow" /\ op.screen = "mainScreen"
  /\ fault = "none"
  /\ scrollableStack[0] = "setupMenu"
  /\ Cardinality(Tagged("dispatch")) = 4
  /\ Cardinality(Tagged("UG_FillScreen")) = 1 /\ Cardinality(Tagged("lcd_refresh")) = 1

\* the call of renderEditable at log entry k returned true
EditableDrew(k) ==
  /\ k + 1 \in DOMAIN log
  /\ log[k + 1][1] = "drew" /\ log[k + 1][2] = log[k][2] /\ log[k + 1][3] = log[k][3]

\* no later call of renderEditable in the pass was made for the layout of entry k
LastCall(k) ==
  \A j \in Tagged("editable") : log[j][2] = log[k][2] /\ log[j][3] = log[k][3] => j <= k

MoreRows(s, i) ==
  \A j \in 1 .. i : field[EntryAt(Cur, s, field[s].first + j - 1)].variant # "FieldEnd"

\* the Field that data row i (1..3) of the expanded menu s shows
ExpectedRow(s, i) ==
  IF MoreRows(s, i) THEN EntryAt(Cur, s, field[s].first + i - 1) ELSE BlankRow(i)

\* a relayout of the navigation stack's screen is pending
RelayoutPending ==
  /\ scrollableStackPtr >= 1
  /\ forceScrollableRelayout
  /\ field[scrollableStack[0]].dirty

\* this step is a press with an UP or a DOWN click that reached the active
\* scrollable and left a scrollable active
UpDownStep ==
  /\ \E events \in SUBSET ClickFlags :
       /\ events \cap {"UP_CLICK", "DOWN_CLICK"} # {}
       /\ PressStep(events)
  /\ curActiveEditable = NULL
  /\ scrollableStackPtr >= 1
  /\ scrollableStackPtr' >= 1

\* the last pass regenerated the rows of menu s
Relaid(s) == \E k \in Tagged("relayout") : log[k][2] = s

\* the last pass drew row i of rows[] for Field f
RowDrewField(i, f) ==
  \E k \in Tagged("drew") : log[k][2] = "rows" /\ log[k][3] = i + 1 /\ log[k][4] = f

\* C29: an UP or DOWN click handled by the active scrollable, at any depth,
\* leaves a relayout pending, and the next screenUpdate(), whether or not it
\* toggles the blink state, regenerates the rows of the active scrollable from
\* its first and selected, draws each of the three data rows and flushes.
C29_RedrawnAfterUpDown ==
  /\ [][UpDownStep => RelayoutPending']_vars
  /\ [][op' = Idle => prog' = prog]_vars
  /\ [][ UpdateStep /\ RelayoutPending
         => /\ Relaid(Top)'
            /\ \A i \in 1 .. MAX_SCROLLABLE_ROWS - 1 : RowDrewField(i, ExpectedRow(Top, i))'
            /\ Flushed' ]_vars

\* this step is an exit press that pops the navigation stack and leaves a
\* parent scrollable active
ExitPopStep ==
  /\ PressStep({"ONOFF_CLICK"})
  /\ curActiveEditable = NULL
  /\ scrollableStackPtr >= 2

\* C30: an exit press at depth 3 or 2 pops the stack, is reported handled and
\* asks for a relayout; the next screenUpdate() made with that request still
\* standing regenerates the rows of the parent and draws the screen's
\* scrollable, whether or not it toggles the blink state.
C30_ParentShownAfterExit ==
  /\ [][ ExitPopStep
         => /\ ret'.handled
            /\ scrollableStackPtr' = scrollableStackPtr - 1
            /\ forceScrollableRelayout' ]_vars
  /\ [][op' = Idle => prog' = prog]_vars
  /\ [][ UpdateStep /\ forceScrollableRelayout /\ scrollableStackPtr >= 1
         => Relaid(Top)' /\ TopDrew(1)' /\ Flushed' ]_vars

\* the program state a regeneration of the rows of the active scrollable,
\* laid out in the screen's first layout, would produce now
Regenerated == relayoutRows(Cur, curScreen, 1, Top, 0, TRUE)

\* the data rows (1..3) that show an entry of the active scrollable
VisibleRows == {i \in 1 .. MAX_SCROLLABLE_ROWS - 1 : MoreRows(Top, i)}

\* C31: regenerating the rows of the expanded scrollable gives four rows and
\* a terminator: row 0 is the heading, data row i shows entry first+i-1 when
\* no End sentinel occurs up to that index and a filler box otherwise, a
\* visible entry is marked selected iff its index is selected, and a menu with
\* at least one entry has exactly one selected visible row.
C31_RowsRegenerated ==
  (fault = "none" /\ curScreen # NULL /\ scrollableStackPtr >= 1)
  => /\ Regenerated.lay["rows"][1].field = "heading"
     /\ Regenerated.lay["rows"][MAX_SCROLLABLE_ROWS + 1].field = NULL
     /\ \A i \in 1 .. MAX_SCROLLABLE_ROWS - 1 :
          /\ Regenerated.lay["rows"][i + 1].field = ExpectedRow(Top, i)
          /\ i \notin VisibleRows
             => Regenerated.field[Regenerated.lay["rows"][i + 1].field].variant = "FieldFill"
          /\ i \in VisibleRows
             => (Regenerated.field[ExpectedRow(Top, i)].is_selected
                  <=> field[Top].first + i - 1 = field[Top].selected)
     /\ NumEntries(Top) >= 1
        => Cardinality({i \in VisibleRows :
                          Regenerated.field[ExpectedRow(Top, i)].is_selected}) = 1

\* C31 witness: a pass has regenerated the rows of the six-entry list scrolled
\* to its end: heading, item3, item4 and the selected item5.
C31_ListEndShown ==
  /\ op.name = "screenUpdate" /\ fault = "none"
  /\ Relaid("listMenu")
  /\ field["listMenu"].first = 3 /\ field["listMenu"].selected = 5
  /\ lay["rows"][1].field = "heading" /\ lay["rows"][2].field = "item3"
  /\ lay["rows"][3].field = "item4" /\ lay["rows"][4].field = "item5"
  /\ lay["rows"][5].field = NULL
  /\ field["item5"].is_selected /\ ~field["item4"].is_selected /\ ~field["item3"].is_selected

\* the highest index of entries[] the row loop touches when it regenerates
\* the rows of menu s: it takes &entries[first + i - 1] and sets its dirty
\* flag for every i in 1..3, before it looks at the variant
LastTouched(s) == field[s].first + (MAX_SCROLLABLE_ROWS - 1) - 1

\* C32: a regeneration of the rows of a scrollable touches no Field at an
\* index beyond the End sentinel of its entry list, so nothing that follows
\* the list in memory is ever written.
C32_NoAccessBeyondEnd ==
  /\ \A k \in Tagged("relayout") : LastTouched(log[k][2]) <= NumEntries(log[k][2])
  /\ ~field["beyond"].dirty

\* C33: whenever an editable is active the navigation stack is non-empty and
\* the active editable is the selected entry of the scrollable on top of it;
\* and no press that leaves the same editable active moves a selection or
\* changes the stack.
C33_EditingSelectedEntry ==
  /\ [](curActiveEditable # NULL
        => scrollableStackPtr >= 1 /\ Clicked = curActiveEditable)
  /\ [][ (AnyPressStep /\ curActiveEditable # NULL /\ curActiveEditable' = curActiveEditable)
         => StackUnchanged /\ ScrollUnchanged ]_vars

\* this step is a screenUpdate() on a screen whose first layout is a
\* scrollable, made while the navigation stack is empty
EmptyStackUpdate ==
  /\ UpdateStep
  /\ scrollableStackPtr = 0
  /\ RootOf(curScreen) # NULL

\* C34: while the navigation stack is empty on a menu screen, no update moves
\* a first or selected, and the update that toggles the blink state, the
\* tenth at the latest, renders the root's layout, which re-enters the root:
\* the depth is 1 again and the rows of the root are regenerated.
C34_RootReentered ==
  [][ EmptyStackUpdate
      => /\ ScrollUnchanged
         /\ blinkChanged' = (blinkCounter = BlinkPeriod - 1)
         /\ blinkChanged'
            => /\ scrollableStackPtr' = 1
               /\ scrollableStack'[0] = RootOf(curScreen)
               /\ Relaid(RootOf(curScreen))' ]_vars

\* C34 witness: an update that found the stack empty and the root clean has
\* toggled the blink state and re-entered the list, scrolled as it was left.
C34_ListReopened ==
  /\ op.name = "screenUpdate" /\ op.depth = 0 /\ fault = "none"
  /\ blinkChanged
  /\ \E k \in Tagged("visit") : log[k][2] = "listScreen" /\ log[k][3] = 1 /\ ~log[k][5]
  /\ scrollableStackPtr = 1 /\ scrollableStack[0] = "listMenu"
  /\ field["listMenu"].selected = 3 /\ field["listMenu"].first = 1
  /\ lay["rows"][2].field = "item1" /\ field["item3"].is_selected

\* C35: the cell of a UInt editable with min_value <= max_value that starts
\* inside [min_value, max_value] stays inside it under every sequence of
\* increments and decrements, for steps 0..MaxStep and cells of 1, 2 and 4
\* bytes.
C35_StaysInRange ==
  (probeCfg.typ = "EditUInt" /\ curActiveEditable = "probe")
  => /\ probeCfg.min_value <= cell["probeCell"]
     /\ cell["probeCell"] <= probeCfg.max_value

\* C35 witness: an increment by 3 of a 2-byte number ranging over 5..9 has
\* passed max_value and the cell holds min_value.
C35_WrappedToMin ==
  /\ op.name = "changeEditable" /\ op.increment
  /\ fault = "none"
  /\ probeCfg = ProbeNumber(2, 5, 9, 3)
  /\ cell["probeCell"] = 5

\* C36: for a cell of 1, 2 or 4 bytes and every value the cell can hold,
\* setEditableNumber(v) followed by getEditableNumber yields v; for any other
\* width the calls stop at the assertion.
C36_RoundTrip ==
  op.name = "roundTrip"
  => IF WidthOk(probeCfg.size) THEN fault = "none" /\ op.read = op.v
     ELSE fault # "none"

\* this step moved the first or the selected index of scrollable s
ScrollMoved(s) ==
  field'[s].selected # field[s].selected \/ field'[s].first # field[s].first

\* C37: the first and selected indices of a scrollable change only in a press
\* that carries an UP or a DOWN click and is delivered while no editable is
\* active and that scrollable is on top of the navigation stack; every other
\* step (entering, exiting, the editor, render passes, screenShow) leaves them
\* as they were.
C37_MovedOnlyByUpDownOnTop ==
  [][ \A s \in MenuFields :
        ScrollMoved(s)
        => /\ op = Idle /\ op'.name = "screenOnPress"
           /\ op'.events \cap {"UP_CLICK", "DOWN_CLICK"} # {}
           /\ curActiveEditable = NULL
           /\ scrollableStackPtr >= 1
           /\ s = Top ]_vars

\* C37 witness: a screenShow has emptied the navigation stack and its render
\* pass has re-entered the menu, which is still scrolled to its fourth entry
\* with the window one row down.
C37_ReopenedScrolled ==
  /\ op.name = "screenShow"
  /\ scrollableStackPtr = 1 /\ scrollableStack[0] = "mixMenu"
  /\ field["mixMenu"].selected = 3 /\ field["mixMenu"].first = 1

\* the last pass dispatched a row of rows[] that shows a collapsed scrollable
CollapsedRowShown ==
  \E k \in Tagged("dispatch") : log[k][2] = "rows" /\ log[k][4] \in MenuFields

\* the last pass took row i of rows[] into a dirty-clearing loop
RowCleared(i) ==
  \E k \in Tagged("clear") : log[k][2] = "rows" /\ log[k][3] = i

\* C38: after a render pass that regenerated the rows of the expanded
\* scrollable and rendered a collapsed Scrollable entry among them, rows[]
\* still holds the heading, the three data rows of the expanded scrollable and
\* the terminator, every data row was drawn and every data row took part in
\* the dirty-clearing pass.
C38_RowsKeptByCollapsedRow ==
  (/\ op.name \in {"screenUpdate", "screenShow"}
   /\ fault = "none"
   /\ scrollableStackPtr >= 1
   /\ Relaid(Top)
   /\ CollapsedRowShown)
  => /\ lay["rows"][1].field = "heading"
     /\ \A i \in 1 .. MAX_SCROLLABLE_ROWS - 1 :
          /\ lay["rows"][i + 1].field = ExpectedRow(Top, i)
          /\ RowDrewField(i, ExpectedRow(Top, i))
          /\ RowCleared(i + 1)
     /\ lay["rows"][MAX_SCROLLABLE_ROWS + 1].field = NULL

\* C39: no render pass hands a Field of variant End to a renderer: the
\* assertion of renderEnd is never hit, no dispatch of any pass names an End
\* Field, and no row of rows[] names one.
C39_EndNeverDispatched ==
  /\ fault # "assert(0) renderEnd"
  /\ \A k \in Tagged("dispatch") : field[log[k][4]].variant # "FieldEnd"
  /\ \A i \in 1 .. MAX_SCROLLABLE_ROWS + 1 : lay["rows"][i].field \notin EndFields

\* C39 witness: a menu with no entries is expanded, the relayout has looked at
\* its End sentinel as the first visible entry, and the first data row was
\* dispatched with a filler instead.
C39_FillerForEnd ==
  /\ fault = "none"
  /\ scrollableStackPtr = 2 /\ Top = "emptyMenu"
  /\ Relaid("emptyMenu")
  /\ field["emptyEnd"].dirty
  /\ \E k \in Tagged("dispatch") :
       log[k][2] = "rows" /\ log[k][3] = 2 /\ log[k][4] = "blankRows1"

\* C40: the text a text Field holds is at most MAX_FIELD_LEN - 1 characters,
\* so that it fits its buffer with the terminator, and after fieldPrintf it is
\* the formatted output cut to that length: a prefix of the output, the whole
\* of it when it fits.
C40_TextFitsBuffer ==
  /\ \A f \in TextFields : Len(field[f].msg) + 1 <= MAX_FIELD_LEN
  /\ op.name = "fieldPrintf"
     => /\ field[op.f].msg = SubSeq(op.str, 1, Len(field[op.f].msg))
        /\ Len(field[op.f].msg) = Min(Len(op.str), MAX_FIELD_LEN - 1)

\* C40 witness: output two characters longer than the text the buffer can hold
\* was formatted into a Field that held a shorter text, and the Field holds
\* its first 15 characters.
C40_LongOutputCut ==
  /\ op.name = "fieldPrintf"
  /\ Len(op.str) = MAX_FIELD_LEN + 1
  /\ Len(op.oldMsg) < MAX_FIELD_LEN - 1
  /\ Len(field[op.f].msg) = MAX_FIELD_LEN - 1

====
